---- MODULE Spec2Model ----
(***************************************************************************)
(* The chat engine of pine-python (src/src/pine_ai/chat.py): one turn,     *)
(* ChatEngine._listen, on one session of one SocketIOManager.              *)
(*                                                                         *)
(* Python values: None is the string "None"; a str is a TLA+ string and    *)
(* "".join and + are \o; a dict is a function whose DOMAIN is its key set. *)
(* Time is counted in whole seconds: a pending call_later handle and the   *)
(* pending wait_for carry the seconds they have left, and Tick lets one    *)
(* second pass.  The event loop is never blocked: a callback that is due   *)
(* runs before the next second passes.                                     *)
(***************************************************************************)
EXTENDS Integers, Sequences, FiniteSets, TLC

\* ------------------------------------------------------------- bounds
MaxEvents == 3          \* inbound events dispatched in one behaviour
IdleTimeoutS == 2       \* idle_timeout_s the engine is constructed with
TimeoutS == 2           \* timeout the emit_and_wait calls are made with
MaxReplies == 2         \* envelopes dispatched while requests are outstanding
MaxSends == 2           \* sends that schedule a _do_emit task
MaxTurns == 1           \* turns opened on the session after the first

\* ---------------------------------------------------------- constants
DebounceS == 3          \* loop.call_later(3.0, flush_wl, step_id)

None == "None"
SessionId == "s1"       \* the session_id _listen is called with

\* TERMINAL_STATES without "task_stale"
TERMINAL_STATES_short == {"task_finished", "task_cancelled"}

TERMINAL_STATES == {"task_finished", "task_cancelled", "task_stale"}

\* SUBSTANTIVE_EVENTS without its last entry
SUBSTANTIVE_EVENTS_short ==
  {"SESSION_TEXT", "SESSION_FORM_TO_USER", "SESSION_ASK_FOR_LOCATION",
   "SESSION_TASK_READY", "SESSION_TASK_FINISHED",
   "SESSION_INTERACTIVE_AUTH_CONFIRMATION", "SESSION_THREE_WAY_CALL"}

SUBSTANTIVE_EVENTS ==
  {"SESSION_TEXT", "SESSION_FORM_TO_USER", "SESSION_ASK_FOR_LOCATION",
   "SESSION_TASK_READY", "SESSION_TASK_FINISHED",
   "SESSION_INTERACTIVE_AUTH_CONFIRMATION", "SESSION_THREE_WAY_CALL",
   "SESSION_REWARD"}

\* ------------------------------------------------------- dict helpers
Pop(d, k) == [x \in DOMAIN d \ {k} |-> d[x]]
Put(d, k, v) == [x \in DOMAIN d \cup {k} |-> IF x = k THEN v ELSE d[x]]
Values(d) == {d[x] : x \in DOMAIN d}

RECURSIVE Join(_)
Join(l) == IF l = <<>> THEN "" ELSE Head(l) \o Join(Tail(l))

\* ---------------------------------------------------------- ChatEvent
\* origin is not a field of the class: it records which statement of
\* _listen built the event ("text" 184, "flush" 160, "pass" 208, "check"
\* 142/236), so that the claims can tell a reassembled event from a raw one.
ChatEvent(type, session_id, message_id, data, origin) ==
  [type |-> type, session_id |-> session_id, message_id |-> message_id,
   data |-> data, metadata |-> None, origin |-> origin]

\* The None that handler puts on the queue to end the turn.
Sentinel == [type |-> None]
IsNone(evt) == evt.type = None

\* ------------------------------------------------------ TextPartBuffer
\* collect returns None or the merged string: some = FALSE is None.

\* collect with self._parts.get in place of self._parts.pop
collect_keep(parts, message_id, content, final) ==
  LET p1 == IF message_id \in DOMAIN parts THEN parts ELSE Put(parts, message_id, <<>>)
      p2 == IF content # "" THEN [p1 EXCEPT ![message_id] = Append(@, content)] ELSE p1
  IN  [parts |-> p2, some |-> final,
       merged |-> IF final THEN Join(p2[message_id]) ELSE ""]

collect(parts, message_id, content, final) ==
  LET p1 == IF message_id \in DOMAIN parts THEN parts ELSE Put(parts, message_id, <<>>)
      p2 == IF content # "" THEN [p1 EXCEPT ![message_id] = Append(@, content)] ELSE p1
  IN  IF final
        THEN [parts |-> Pop(p2, message_id), some |-> TRUE, merged |-> Join(p2[message_id])]
        ELSE [parts |-> p2, some |-> FALSE, merged |-> ""]

\* ------------------------------------------------------------ the turn
\* The locals of _listen that its closures share.  scheduled is the event
\* loop's side of wl_timers: the call_later handles that are neither fired
\* nor cancelled, by handle number, with the step they flush and the
\* seconds left.  handles counts the handles created.  puts is the history
\* of queue.put_nowait, kept for the claims.
NewTurn ==
  [text_buffer |-> <<>>, queue |-> <<>>, done |-> FALSE,
   received_agent_response |-> FALSE, wl_timers |-> <<>>, wl_buffers |-> <<>>,
   scheduled |-> <<>>, handles |-> 0, puts |-> <<>>]

\* put_nowait of a queue that hands out the newest item first
put_nowait_lifo(t, item) ==
  [t EXCEPT !.queue = <<item>> \o @, !.puts = Append(@, item)]

put_nowait(t, item) ==
  [t EXCEPT !.queue = Append(@, item), !.puts = Append(@, item)]

cancel(scheduled, h) == Pop(scheduled, h)

\* flush_wl without wl_timers.pop(step_id, None)
flush_wl_keep(t, step_id) ==
  LET has == step_id \in DOMAIN t.wl_buffers
      t1 == [t EXCEPT !.wl_buffers = Pop(@, step_id)]
  IN  IF has
        THEN put_nowait(t1, ChatEvent("SESSION_WORK_LOG_PART", SessionId, None,
                 [kind |-> "dict", step_id |-> step_id,
                  text |-> t.wl_buffers[step_id].text,
                  status |-> t.wl_buffers[step_id].status], "flush"))
        ELSE t1

flush_wl(t, step_id) ==
  LET has == step_id \in DOMAIN t.wl_buffers
      t1 == [t EXCEPT !.wl_buffers = Pop(@, step_id), !.wl_timers = Pop(@, step_id)]
  IN  IF has
        THEN put_nowait(t1, ChatEvent("SESSION_WORK_LOG_PART", SessionId, None,
                 [kind |-> "dict", step_id |-> step_id,
                  text |-> t.wl_buffers[step_id].text,
                  status |-> t.wl_buffers[step_id].status], "flush"))
        ELSE t1

\* Tier 1: text_part
tier1(t, e) ==
  IF e.data.kind = "dict"
    THEN LET c == collect(t.text_buffer,
                          IF e.message_id # None THEN e.message_id ELSE "unknown",
                          e.data.content, e.data.final)
             t1 == [t EXCEPT !.text_buffer = c.parts]
         IN  IF c.some
               THEN put_nowait(t1,
                      [ChatEvent("SESSION_TEXT", SessionId, e.message_id,
                                 [kind |-> "dict", content |-> c.merged], "text")
                         EXCEPT !.metadata = e.metadata])
               ELSE t1
    ELSE t

\* debounce without old_timer.cancel()
debounce_nocancel(t, step_id) ==
  LET h == t.handles + 1
  IN  [t EXCEPT !.scheduled = Put(@, h, [step_id |-> step_id, left |-> DebounceS]),
                !.wl_timers = Put(@, step_id, h),
                !.handles = h]

\* debounce that keeps one timer for all steps: scheduling a flush cancels
\* every pending one
debounce_shared(t, step_id) ==
  LET h == t.handles + 1
  IN  [t EXCEPT !.scheduled = Put(<<>>, h, [step_id |-> step_id, left |-> DebounceS]),
                !.wl_timers = Put(@, step_id, h),
                !.handles = h]

\* Tier 3: work_log_part debounce
debounce(t, step_id) ==
  LET s1 == IF step_id \in DOMAIN t.wl_timers
              THEN cancel(t.scheduled, t.wl_timers[step_id]) ELSE t.scheduled
      h  == t.handles + 1
  IN  [t EXCEPT !.scheduled = Put(s1, h, [step_id |-> step_id, left |-> DebounceS]),
                !.wl_timers = Put(@, step_id, h),
                !.handles = h]

\* Python's truth value of a value read from the payload: absent (None) and
\* the empty string are false.
Truthy(x) == x # None /\ x # ""

\* tier3 that stores the status of every delta, also an absent one
tier3_overwrite(t, e) ==
  IF e.data.kind = "dict"
    THEN LET step_id == IF e.data.step_id # None THEN e.data.step_id ELSE "unknown"
             existing == IF step_id \in DOMAIN t.wl_buffers
                           THEN t.wl_buffers[step_id]
                           ELSE [text |-> "", status |-> None]
             updated == [text |-> existing.text \o e.data.text_delta,
                         status |-> e.data.status]
         IN  debounce([t EXCEPT !.wl_buffers = Put(@, step_id, updated)], step_id)
    ELSE t

tier3(t, e) ==
  IF e.data.kind = "dict"
    THEN LET step_id == IF e.data.step_id # None THEN e.data.step_id ELSE "unknown"
             existing == IF step_id \in DOMAIN t.wl_buffers
                           THEN t.wl_buffers[step_id]
                           ELSE [text |-> "", status |-> None]
             updated == [text |-> existing.text \o e.data.text_delta,
                         status |-> IF Truthy(e.data.status)
                                      THEN e.data.status ELSE existing.status]
         IN  debounce([t EXCEPT !.wl_buffers = Put(@, step_id, updated)], step_id)
    ELSE t

terminate(t) == put_nowait([t EXCEPT !.done = TRUE], Sentinel)

\* tier2 without "and received_agent_response" in the waiting_input test
tier2_nogate(t, e) ==
  LET t1 == put_nowait(t, [ChatEvent(e.event, SessionId, e.message_id, e.data, "pass")
                             EXCEPT !.metadata = e.metadata])
      t2 == IF e.event \in SUBSTANTIVE_EVENTS
              THEN [t1 EXCEPT !.received_agent_response = TRUE] ELSE t1
      t3 == IF /\ e.event = "SESSION_INPUT_STATE"
               /\ e.data.kind = "dict"
               /\ e.data.content = "waiting_input"
              THEN terminate(t2) ELSE t2
  IN  IF /\ e.event = "SESSION_STATE"
         /\ e.data.kind = "dict"
         /\ e.data.content \in TERMINAL_STATES
        THEN terminate(t3) ELSE t3

\* tier2 that builds the ChatEvent without metadata=metadata
tier2_nometadata(t, e) ==
  LET t1 == put_nowait(t, ChatEvent(e.event, SessionId, e.message_id, e.data, "pass"))
      t2 == IF e.event \in SUBSTANTIVE_EVENTS
              THEN [t1 EXCEPT !.received_agent_response = TRUE] ELSE t1
      t3 == IF /\ e.event = "SESSION_INPUT_STATE"
               /\ e.data.kind = "dict"
               /\ e.data.content = "waiting_input"
               /\ t2.received_agent_response
              THEN terminate(t2) ELSE t2
  IN  IF /\ e.event = "SESSION_STATE"
         /\ e.data.kind = "dict"
         /\ e.data.content \in TERMINAL_STATES
        THEN terminate(t3) ELSE t3

\* All other events: dispatch immediately
tier2(t, e) ==
  LET t1 == put_nowait(t, [ChatEvent(e.event, SessionId, e.message_id, e.data, "pass")
                             EXCEPT !.metadata = e.metadata])
      t2 == IF e.event \in SUBSTANTIVE_EVENTS
              THEN [t1 EXCEPT !.received_agent_response = TRUE] ELSE t1
      t3 == IF /\ e.event = "SESSION_INPUT_STATE"
               /\ e.data.kind = "dict"
               /\ e.data.content = "waiting_input"
               /\ t2.received_agent_response
              THEN terminate(t2) ELSE t2
  IN  IF /\ e.event = "SESSION_STATE"
         /\ e.data.kind = "dict"
         /\ e.data.content \in TERMINAL_STATES
        THEN terminate(t3) ELSE t3

\* handler without the return that ends the text_part branch
handler_fallthrough(t, e) ==
  IF Truthy(e.session_id) /\ e.session_id # SessionId THEN t
  ELSE IF e.event = "SESSION_TEXT_PART" THEN tier2(tier1(t, e), e)
  ELSE IF e.event = "SESSION_WORK_LOG_PART" THEN tier3(t, e)
  ELSE tier2(t, e)

\* handler without the test of the payload's session id
handler_unfiltered(t, e) ==
  IF e.event = "SESSION_TEXT_PART" THEN tier1(t, e)
  ELSE IF e.event = "SESSION_WORK_LOG_PART" THEN tier3(t, e)
  ELSE tier2(t, e)

\* handler that takes only the events that name the turn's session
handler_strict(t, e) ==
  IF e.session_id # SessionId THEN t
  ELSE IF e.event = "SESSION_TEXT_PART" THEN tier1(t, e)
  ELSE IF e.event = "SESSION_WORK_LOG_PART" THEN tier3(t, e)
  ELSE tier2(t, e)

handler(t, e) ==
  IF Truthy(e.session_id) /\ e.session_id # SessionId THEN t
  ELSE IF e.event = "SESSION_TEXT_PART" THEN tier1(t, e)
  ELSE IF e.event = "SESSION_WORK_LOG_PART" THEN tier3(t, e)
  ELSE tier2(t, e)

\* ------------------------------------------------------ inbound events
\* metadata is the envelope's metadata as the turn hands it on (None when
\* the envelope has none); malformed names the part of the envelope that is
\* not a map: "top" the whole data of the socket.io event, "payload",
\* "metadata", or "no" for a well-formed envelope.
Raw(event, session_id, message_id, data) ==
  [event |-> event, session_id |-> session_id, message_id |-> message_id,
   data |-> data, metadata |-> None, malformed |-> "no"]

WithMetadata(e, metadata) == [e EXCEPT !.metadata = metadata]
Malformed(e, part) == [e EXCEPT !.malformed = part]

NotADict == [kind |-> "other"]
TextPart(content, final) == [kind |-> "dict", content |-> content, final |-> final]
WorkLogPart(step_id, text_delta, status) ==
  [kind |-> "dict", step_id |-> step_id, text_delta |-> text_delta, status |-> status]
Content(content) == [kind |-> "dict", content |-> content]

\* The events the backend sends, by scenario: each specification below
\* explores the turn against one of these sets.
Text(message_id, content, final) ==
  Raw("SESSION_TEXT_PART", SessionId, message_id, TextPart(content, final))
WorkLog(step_id, text_delta, status) ==
  Raw("SESSION_WORK_LOG_PART", SessionId, None, WorkLogPart(step_id, text_delta, status))
InputState(content) == Raw("SESSION_INPUT_STATE", SessionId, None, Content(content))
State(content) == Raw("SESSION_STATE", SessionId, None, Content(content))
Form == Raw("SESSION_FORM_TO_USER", SessionId, "m9", Content("c"))

TurnEvents ==
  {Text("m1", "a", FALSE), Text("m1", "b", TRUE), Form,
   InputState("waiting_input"), State("task_finished"), State("chat"),
   WorkLog("w1", "x", None)}

TextEvents ==
  {Text("m1", "a", FALSE), Text("m1", "b", FALSE), Text("m1", "a", TRUE),
   Text("m1", "", TRUE), Text("m2", "b", FALSE), Text("m2", "a", TRUE),
   WorkLog("w1", "x", None)}

WorkLogEvents ==
  {WorkLog("w1", "x", None), WorkLog("w1", "y", "ok"), WorkLog("w2", "x", None),
   Form, State("task_finished")}

\* What the backend calls a terminal session state and a substantive event.
TerminalContents == {"task_finished", "task_cancelled", "task_stale"}
SubstantiveTypes ==
  {"SESSION_TEXT", "SESSION_FORM_TO_USER", "SESSION_ASK_FOR_LOCATION",
   "SESSION_TASK_READY", "SESSION_TASK_FINISHED",
   "SESSION_INTERACTIVE_AUTH_CONFIRMATION", "SESSION_THREE_WAY_CALL",
   "SESSION_REWARD"}

StateEvents ==
  {State(c) : c \in TerminalContents} \cup
  {State("chat"), Raw("SESSION_STATE", SessionId, None, NotADict), Form,
   WorkLog("w1", "x", None)}

SubstantiveEvents ==
  {Raw(ty, SessionId, "m9", Content("c")) : ty \in SubstantiveTypes} \cup
  {InputState("waiting_input"), WorkLog("w1", "x", None)}

\* The envelopes the backend sends while requests are outstanding: the
\* request_id is the uuid of a call, or absent; the payload data is a dict
\* (items) or absent.
RequestIds == {"r1", "r2"}
Earlier(r) == IF r = "r2" THEN {"r1"} ELSE {}
RequestTypes == {"SESSION_JOIN", "SESSION_HISTORY"}

Reply(event, request_id, session_id, role, data) ==
  [event |-> event, session_id |-> session_id, message_id |-> None,
   data |-> data, metadata |-> "md", malformed |-> "no",
   request_id |-> request_id, role |-> role]

NoData == [kind |-> "none"]
Dict(items) == [kind |-> "dict", items |-> items]

DataOf(request_id) ==
  CASE request_id = "r1" -> Dict(Put(<<>>, "a", 1))
    [] request_id = "r2" -> Dict(Put(Put(<<>>, "a", 2), "b", 1))
    [] OTHER -> NoData

Replies ==
  {Reply(ty, rid, sid, role, DataOf(rid)) :
     ty \in RequestTypes, rid \in RequestIds \cup {None},
     sid \in {SessionId, "s2", None}, role \in {"user", "assistant"}}

\* The envelopes of a session on which a turn is open while join requests
\* are outstanding.
JoinReply == Reply("SESSION_JOIN", "r1", SessionId, "assistant", DataOf("r1"))

JointEvents ==
  {JoinReply, Form, State("task_finished"),
   Malformed(JoinReply, "metadata"), Malformed(Form, "payload"),
   Malformed(Form, "top")}

\* The events of two sessions on one transport, and one whose payload has
\* the empty string as session id.
InSession(e, session_id) == [e EXCEPT !.session_id = session_id]

SessionEvents ==
  {Form, Text("m1", "a", FALSE), WorkLog("w1", "x", None),
   InSession(Form, "s2"), InSession(State("task_finished"), "s2"),
   InSession(Text("m1", "b", TRUE), "s2"),
   InSession(WorkLog("w1", "y", "ok"), "s2"),
   InSession(Form, "")}

\* Events of types the turn passes through, with and without metadata,
\* session id, message id and payload data, and one fragment of each
\* buffered type.
PassEvents ==
  {Form, WithMetadata(Form, "md1"),
   WithMetadata(Raw("SESSION_CARD", None, "m2", NotADict), "md2"),
   WithMetadata(Raw("SESSION_TASK_READY", SessionId, None, NoData), "md1"),
   WithMetadata(InputState("waiting_input"), "md2"),
   WithMetadata(State("task_finished"), "md1"),
   WithMetadata(Text("m1", "a", TRUE), "md1"),
   WithMetadata(WorkLog("w1", "x", None), "md1")}

\* The events of a session on which a turn is closed and another opened.
ReopenEvents ==
  {Text("m1", "a", FALSE), Text("m1", "b", TRUE), WorkLog("w1", "x", None),
   State("task_finished")}

\* The events a subscriber of the session sees on the transport.
SubscribeEvents ==
  {State("task_finished"), InputState("waiting_input"), Form,
   Text("m1", "a", FALSE), InSession(Form, "s2")}

\* Work-log deltas of one step with a status, without one and with an
\* empty one.
StatusEvents ==
  {WorkLog("w1", "x", "run"), WorkLog("w1", "y", None), WorkLog("w1", "z", "ok"),
   WorkLog("w1", "e", ""), WorkLog(None, "u", "ok")}

\* Text fragments without message id, of the message m1 and of a message
\* whose id is the string "unknown", and a work-log delta.
UnknownEvents ==
  {Text(None, "a", FALSE), Text(None, "b", TRUE), Text("m1", "c", FALSE),
   Text("m1", "d", TRUE), Text("unknown", "e", TRUE),
   WorkLog("w1", "x", None)}

\* Events whose payload has no session id, of every tier, and events with
\* another session's id and with the empty string as session id.
AbsentEvents ==
  {InSession(Form, None), InSession(Text("m1", "a", FALSE), None),
   InSession(Text("m1", "b", TRUE), None),
   InSession(WorkLog("w1", "x", None), None),
   InSession(State("task_finished"), None),
   InSession(State("task_finished"), "s2"), InSession(Form, "")}

\* The events of a turn whose message was sent with chat().
SendEvents ==
  {Form, WorkLog("w1", "x", None), State("task_finished")}

Inbound(s) ==
  CASE s = "request" -> Replies
    [] s = "send" -> SendEvents
    [] s = "absent" -> AbsentEvents
    [] s = "unknown" -> UnknownEvents
    [] s = "status" -> StatusEvents
    [] s = "subscribe" -> SubscribeEvents
    [] s = "reopen" -> ReopenEvents
    [] s = "pass" -> PassEvents
    [] s = "sessions" -> SessionEvents
    [] s = "joint" -> JointEvents
    [] s = "turn" -> TurnEvents
    [] s = "text" -> TextEvents
    [] s = "work_log" -> WorkLogEvents
    [] s = "state" -> StateEvents
    [] s = "substantive" -> SubstantiveEvents

\* What check_session_state answers: a state, or it raises.
Raises == "raises"
CheckAnswers == TerminalContents \cup {"chat", Raises}

\* ---------------------------------------------------------------- state
VARIABLES
  pc,                  \* where the generator _listen is suspended
  turn,                \* the locals of _listen (NewTurn)
  event_handlers,      \* SocketIOManager._event_handlers
  check_session_state, \* whether the engine was given a check_session_state
  channel,             \* the sends: the _do_emit tasks and what became of them
  sub,                 \* the generator of AsyncPineAI.subscribe and its queue
  idle_left,           \* seconds left of the pending wait_for
  dispatched,          \* inbound events dispatched so far
  yielded,             \* the events the caller has been yielded
  scenario,            \* the set of events the backend sends (Inbound)
  requests,            \* the emit_and_wait calls, by request_id
  seen,                \* what the handler has received, for the claims
  last                 \* the step taken last, for the claims

vars == <<pc, turn, event_handlers, check_session_state, channel, sub, idle_left,
          dispatched, yielded, scenario, requests, seen, last>>

Step(op, arg) == [op |-> op, arg |-> arg]

\* seen.frags[k]: the contents of the text fragments received under key k
\* since its last final fragment, seen.parts[i] those received with the
\* message id i (None: without message id); seen.deltas[s]: the text deltas received
\* for step s since its last flush, seen.stats[s] their statuses; seen.since[s]: the seconds passed since
\* the last of them (counted up to DebounceS + 1); seen.resumed: the keys
\* that had fragments buffered when an idle check let the turn resume;
\* seen.turns: the turns opened on the session after the first; seen.lost:
\* the buffers the turn before this one had when it closed;
\* seen.quiet: the seconds passed since the handler last received an event
\* for the session (counted up to IdleTimeoutS); seen.called: the handlers
\* the last dispatch has called, in order.
MessageKeys == {"m1", "m2", "unknown"}
MessageIds == {"m1", "m2", "unknown", None}
StepIds == {"w1", "w2", "unknown"}
KeyOf(e) == IF e.message_id # None THEN e.message_id ELSE "unknown"
StepOf(e) == IF e.data.step_id # None THEN e.data.step_id ELSE "unknown"

NothingSeen ==
  [frags |-> [k \in MessageKeys |-> <<>>],
   deltas |-> [s \in StepIds |-> <<>>],
   stats |-> [s \in StepIds |-> <<>>],
   parts |-> [i \in MessageIds |-> <<>>],
   since |-> [s \in StepIds |-> 0],
   resumed |-> {},
   quiet |-> 0,
   called |-> <<>>,
   turns |-> 0,
   lost |-> [text_buffer |-> <<>>, wl_buffers |-> <<>>]]

Received(e) ==
  /\ ~(Truthy(e.session_id) /\ e.session_id # SessionId)
  /\ e.data.kind = "dict"

SeenOnAny(e) ==
  IF e.event = "SESSION_TEXT_PART" /\ Received(e)
    THEN [seen EXCEPT !.frags[KeyOf(e)] =
            IF e.data.final THEN <<>> ELSE Append(@, e.data.content),
                      !.parts[e.message_id] =
            IF e.data.final THEN <<>> ELSE Append(@, e.data.content),
                      !.quiet = 0]
  ELSE IF e.event = "SESSION_WORK_LOG_PART" /\ Received(e)
    THEN [seen EXCEPT !.deltas[StepOf(e)] = Append(@, e.data.text_delta),
                      !.stats[StepOf(e)] = Append(@, e.data.status),
                      !.since[StepOf(e)] = 0,
                      !.quiet = 0]
  ELSE IF Received(e) THEN [seen EXCEPT !.quiet = 0]
  ELSE seen

SeenTick ==
  [seen EXCEPT !.since = [s \in StepIds |->
     IF seen.deltas[s] # <<>> /\ @[s] <= DebounceS THEN @[s] + 1 ELSE @[s]],
               !.quiet = IF @ < IdleTimeoutS THEN @ + 1 ELSE @]

SeenResume(t) ==
  [seen EXCEPT !.resumed = @ \cup {k \in DOMAIN t.text_buffer : t.text_buffer[k] # <<>>}]

SeenFlush(s) == [seen EXCEPT !.deltas[s] = <<>>, !.stats[s] = <<>>, !.since[s] = 0]

\* A request_id no emit_and_wait call has been made with yet. waited and
\* got are for the claims: the seconds the call has spent in wait_for, and
\* the data of the envelopes dispatched to its response_handler that
\* Matches says are replies to it.
NoRequest ==
  [pc |-> "idle", event_type |-> None, session_id |-> None, left |-> 0,
   result_event |-> FALSE, result_data |-> <<>>, raised |-> None,
   waited |-> 0, got |-> <<>>]

\* No subscribe() generator yet started. queue: the subscriber's queue; out:
\* what the generator has yielded; puts: the history of queue.put_nowait,
\* for the claims; connected: AsyncPineAI.connected.
NoSub ==
  [pc |-> "created", queue |-> <<>>, out |-> <<>>, puts |-> <<>>,
   connected |-> TRUE]

\* No send yet. tasks: the _do_emit tasks scheduled and not yet run; sent:
\* the envelopes the socket has taken; logged: the failures _do_emit has
\* logged; unhandled: the exceptions that have escaped a _do_emit task;
\* raised: what the last send raised to its caller.
NoChannel ==
  [tasks |-> 0, sent |-> 0, logged |-> 0, unhandled |-> 0, raised |-> None]

InitOf(s) ==
  /\ scenario = s
  /\ pc = "created"
  /\ turn = NewTurn
  /\ event_handlers = <<>>
  /\ requests = [r \in RequestIds |-> NoRequest]
  /\ channel = NoChannel
  /\ sub = NoSub
  /\ check_session_state \in BOOLEAN
  /\ idle_left = 0
  /\ dispatched = 0
  /\ yielded = <<>>
  /\ seen = NothingSeen
  /\ last = Step("init", None)

\* ---------------------------------------------------- the generator
Subscribed == \E i \in 1..Len(event_handlers) : event_handlers[i] = "handler"

add_event_handler(hs, h) == Append(hs, h)

\* remove() that empties the handler list
remove_clear(hs, h) == <<>>

\* remove(): list.remove drops the first occurrence, ValueError is swallowed
RECURSIVE remove(_, _)
remove(hs, h) ==
  IF hs = <<>> THEN <<>>
  ELSE IF Head(hs) = h THEN Tail(hs)
  ELSE <<Head(hs)>> \o remove(Tail(hs), h)

\* finally that leaves the debounce timers scheduled
finally_nocancel(t) == t

\* finally: cancel every handle in wl_timers, remove the handler
finally(t) ==
  [t EXCEPT !.scheduled = [h \in DOMAIN @ \ Values(t.wl_timers) |-> @[h]]]

RECURSIVE SkipNone(_)
SkipNone(q) == IF q # <<>> /\ IsNone(Head(q)) THEN SkipNone(Tail(q)) ELSE q

\* The generator runs to its next suspension: R is what it reaches there.
Reach(p, t, hs, idle, out) ==
  /\ pc' = p
  /\ turn' = t
  /\ event_handlers' = hs
  /\ idle_left' = idle
  /\ yielded' = yielded \o out

\* drain without the while loop that empties the queue
drain_skipped(t) ==
  Reach("closed", finally(t), remove(event_handlers, "handler"), 0, <<>>)

\* while not queue.empty(): evt = queue.get_nowait(); if evt is not None: yield evt
\* and, once the queue is empty, the finally block
drain(t) ==
  LET q == SkipNone(t.queue)
  IN  IF q = <<>>
        THEN Reach("closed", finally([t EXCEPT !.queue = q]),
                   remove(event_handlers, "handler"), 0, <<>>)
        ELSE Reach("drain_yield", [t EXCEPT !.queue = Tail(q)],
                   event_handlers, 0, <<Head(q)>>)

\* while not done: evt = await asyncio.wait_for(queue.get(), timeout=...)
loop_top(t, hs) ==
  IF ~t.done
    THEN Reach("waiting", t, hs, IdleTimeoutS, <<>>)
    ELSE drain(t)

Synth(state) ==
  ChatEvent("SESSION_STATE", SessionId, None, [kind |-> "dict", content |-> state], "check")

\* setup of an engine whose buffers belong to the engine, not to the call
setup_shared ==
  loop_top([NewTurn EXCEPT !.text_buffer = turn.text_buffer,
                           !.wl_buffers = turn.wl_buffers],
           add_event_handler(event_handlers, "handler"))

\* lines 147-224: the buffers, the queue, the handler's subscription
setup == loop_top(NewTurn, add_event_handler(event_handlers, "handler"))

\* The caller's first __anext__.
Start ==
  /\ pc = "created"
  /\ IF check_session_state
       THEN Reach("eager_check", turn, event_handlers, 0, <<>>)
       ELSE setup
  /\ last' = Step("start", None)
  /\ UNCHANGED <<check_session_state, sub, channel, requests, dispatched, scenario, seen>>

\* eager_answer of a generator that subscribes its handler before the check
eager_answer_subscribed(answer) ==
  IF answer \in TERMINAL_STATES
    THEN Reach("eager_yield", turn,
               add_event_handler(event_handlers, "handler"), 0, <<Synth(answer)>>)
    ELSE setup

\* The eager check_session_state answers: a terminal state is yielded and
\* the generator returns at its next resumption; anything else, an exception
\* included, goes on to the buffers, the handler and the loop.
eager_answer(answer) ==
  IF answer \in TERMINAL_STATES
    THEN Reach("eager_yield", turn, event_handlers, 0, <<Synth(answer)>>)
    ELSE setup

EagerCheckReturn(answer) ==
  /\ pc = "eager_check"
  /\ eager_answer(answer)
  /\ last' = Step("eager_check", answer)
  /\ UNCHANGED <<check_session_state, sub, channel, requests, dispatched, scenario, seen>>

\* queue.get() returns an item.
Get ==
  /\ pc = "waiting"
  /\ turn.queue # <<>>
  /\ LET evt == Head(turn.queue)
         t == [turn EXCEPT !.queue = Tail(@)]
     IN  IF IsNone(evt)
           THEN drain(t)
           ELSE Reach("yielded", t, event_handlers, 0, <<evt>>)
  /\ last' = Step("get", None)
  /\ UNCHANGED <<check_session_state, sub, channel, requests, dispatched, scenario, seen>>

\* asyncio.TimeoutError out of wait_for
IdleTimeout ==
  /\ pc = "waiting"
  /\ idle_left = 0
  /\ turn.queue = <<>>
  /\ IF check_session_state
       THEN Reach("idle_check", turn, event_handlers, 0, <<>>)
       ELSE loop_top(turn, event_handlers)
  /\ last' = Step("idle_timeout", None)
  /\ UNCHANGED <<check_session_state, sub, channel, requests, dispatched, scenario, seen>>

\* idle_answer that builds a new TextPartBuffer before it resumes waiting
idle_answer_rebuffer(t, answer) ==
  IF answer \in TERMINAL_STATES
    THEN Reach("check_yield", t, event_handlers, 0, <<Synth(answer)>>)
    ELSE loop_top([t EXCEPT !.text_buffer = <<>>], event_handlers)

\* idle_answer that yields the synthesized event and goes on listening
idle_answer_nobreak(t, answer) ==
  IF answer \in TERMINAL_STATES
    THEN Reach("yielded", t, event_handlers, 0, <<Synth(answer)>>)
    ELSE loop_top(t, event_handlers)

\* idle_answer that lets an exception of the check leave the generator
idle_answer_raise(t, answer) ==
  IF answer \in TERMINAL_STATES
    THEN Reach("check_yield", t, event_handlers, 0, <<Synth(answer)>>)
  ELSE IF answer = Raises
    THEN Reach("closed", finally(t), remove(event_handlers, "handler"), 0, <<>>)
  ELSE loop_top(t, event_handlers)

\* The check_session_state of the idle timeout answers.
idle_answer(t, answer) ==
  IF answer \in TERMINAL_STATES
    THEN Reach("check_yield", t, event_handlers, 0, <<Synth(answer)>>)
    ELSE loop_top(t, event_handlers)

IdleCheckReturn(answer) ==
  /\ pc = "idle_check"
  /\ idle_answer(turn, answer)
  /\ seen' = IF answer \in TerminalContents THEN seen ELSE SeenResume(turn)
  /\ last' = Step("idle_check", answer)
  /\ UNCHANGED <<check_session_state, sub, channel, requests, dispatched, scenario>>

\* The caller's next __anext__ on a generator suspended at a yield.
Pull ==
  /\ pc \in {"yielded", "check_yield", "drain_yield", "eager_yield"}
  /\ CASE pc = "yielded" -> loop_top(turn, event_handlers)
       [] pc = "check_yield" -> drain(turn)
       [] pc = "drain_yield" -> drain(turn)
       [] pc = "eager_yield" -> Reach("closed", turn, event_handlers, 0, <<>>)
  /\ last' = Step("pull", pc)
  /\ UNCHANGED <<check_session_state, sub, channel, requests, dispatched, scenario, seen>>

\* The caller closes the generator (aclose) at a yield, or cancels the task
\* that awaits it: GeneratorExit or CancelledError runs the finally block
\* when the try statement has been entered.
Close ==
  /\ pc \notin {"closed", "cancelled"}
  /\ IF pc \in {"created", "eager_check", "eager_yield"}
       THEN Reach("cancelled", turn, event_handlers, 0, <<>>)
       ELSE Reach("cancelled", finally(turn), remove(event_handlers, "handler"), 0, <<>>)
  /\ last' = Step("close", pc)
  /\ UNCHANGED <<check_session_state, sub, channel, requests, dispatched, scenario, seen>>

\* The caller closes a generator that has finished already (a second aclose,
\* or an aclose after the generator returned): no code of the generator runs.
CloseAgain ==
  /\ pc \in {"closed", "cancelled"}
  /\ last' = Step("close", pc)
  /\ UNCHANGED <<pc, turn, event_handlers, check_session_state, sub, channel, requests, idle_left,
                 dispatched, yielded, scenario, seen>>

\* --------------------------------------------------------- emit_and_wait
Registered(hs, r) == \E i \in 1..Len(hs) : hs[i] = r

\* update that keeps the value a key already has
update_keep(d1, d2) ==
  [k \in DOMAIN d1 \cup DOMAIN d2 |-> IF k \in DOMAIN d1 THEN d1[k] ELSE d2[k]]

\* dict.update
update(d1, d2) ==
  [k \in DOMAIN d1 \cup DOMAIN d2 |-> IF k \in DOMAIN d2 THEN d2[k] ELSE d1[k]]

\* payload.get("data") or {}
Items(data) == IF data.kind = "dict" THEN data.items ELSE <<>>

\* response_handler that takes an envelope echoed from the user's own side
response_handler_anyrole(req, r, env) ==
  IF /\ env.event = req.event_type
     /\ \/ env.request_id = r
        \/ req.session_id # None /\ env.session_id = req.session_id
    THEN [req EXCEPT !.result_data = update(@, Items(env.data)),
                     !.result_event = TRUE]
    ELSE req

\* response_handler of the call with request_id r
response_handler(req, r, env) ==
  IF /\ env.event = req.event_type
     /\ \/ env.request_id = r
        \/ /\ req.session_id # None
           /\ env.session_id = req.session_id
           /\ env.role # "user"
    THEN [req EXCEPT !.result_data = update(@, Items(env.data)),
                     !.result_event = TRUE]
    ELSE req

\* The claims' reading of "the envelope is a reply to the request".
Matches(req, r, env) ==
  /\ env.event = req.event_type
  /\ \/ env.request_id = r
     \/ /\ req.session_id # None
        /\ env.session_id = req.session_id
        /\ env.role # "user"

Got(req, r, env) ==
  IF req.pc \in {"emitting", "waiting"} /\ Matches(req, r, env)
    THEN [req EXCEPT !.got = Append(@, Items(env.data))]
    ELSE req

\* wait_for that starts one second short
wait_for_short(req, timeout) ==
  [req EXCEPT !.pc = "waiting", !.left = timeout - 1]

\* asyncio.wait_for(result_event.wait(), timeout=timeout) starts
wait_for(req, timeout) ==
  [req EXCEPT !.pc = "waiting", !.left = timeout]

\* emit_and_wait that hands the envelope to sio.emit without having
\* registered its response_handler
Call_unregistered(r, event_type, session_id, connected) ==
  /\ requests[r].pc = "idle"
  /\ \A q \in Earlier(r) : requests[q].pc # "idle"
  /\ requests' = [requests EXCEPT ![r] =
        IF connected
          THEN [@ EXCEPT !.pc = "emitting", !.event_type = event_type,
                         !.session_id = session_id]
          ELSE [@ EXCEPT !.pc = "not_connected", !.event_type = event_type,
                         !.session_id = session_id,
                         !.raised = "Socket.IO not connected"]]
  /\ UNCHANGED event_handlers
  /\ last' = Step("emit_and_wait", r)
  /\ UNCHANGED <<pc, turn, check_session_state, sub, channel, idle_left, dispatched,
                 yielded, scenario, seen>>

\* emit_and_wait is called: not connected raises RuntimeError; otherwise the
\* response_handler is registered and the envelope is handed to sio.emit.
\* The calls take their uuid4 values in the order r1, r2.
Call(r, event_type, session_id, connected) ==
  /\ requests[r].pc = "idle"
  /\ \A q \in Earlier(r) : requests[q].pc # "idle"
  /\ IF connected
       THEN /\ requests' = [requests EXCEPT ![r] =
                 [@ EXCEPT !.pc = "emitting", !.event_type = event_type,
                           !.session_id = session_id]]
            /\ event_handlers' = add_event_handler(event_handlers, r)
       ELSE /\ requests' = [requests EXCEPT ![r] =
                 [@ EXCEPT !.pc = "not_connected", !.event_type = event_type,
                           !.session_id = session_id,
                           !.raised = "Socket.IO not connected"]]
            /\ UNCHANGED event_handlers
  /\ last' = Step("emit_and_wait", r)
  /\ UNCHANGED <<pc, turn, check_session_state, sub, channel, idle_left, dispatched,
                 yielded, scenario, seen>>

\* await self._sio.emit(...) returns: the wait for the reply starts.
EmitReturns(r) ==
  /\ requests[r].pc = "emitting"
  /\ requests' = [requests EXCEPT ![r] = wait_for(@, TimeoutS)]
  /\ last' = Step("emit_returns", r)
  /\ UNCHANGED <<pc, turn, event_handlers, check_session_state, sub, channel, idle_left,
                 dispatched, yielded, scenario, seen>>

\* await self._sio.emit(...) raises: the exception leaves emit_and_wait
\* from outside its try statement.
EmitRaises(r) ==
  /\ requests[r].pc = "emitting"
  /\ requests' = [requests EXCEPT ![r] =
       [@ EXCEPT !.pc = "send_failed", !.raised = "emit"]]
  /\ last' = Step("emit_raises", r)
  /\ UNCHANGED <<pc, turn, event_handlers, check_session_state, sub, channel, idle_left,
                 dispatched, yielded, scenario, seen>>

\* result_event is set: wait_for returns, the handler is removed and
\* result_data is returned.
Resume(r) ==
  /\ requests[r].pc = "waiting"
  /\ requests[r].result_event
  /\ requests' = [requests EXCEPT ![r] = [@ EXCEPT !.pc = "returned"]]
  /\ event_handlers' = remove(event_handlers, r)
  /\ last' = Step("return", r)
  /\ UNCHANGED <<pc, turn, check_session_state, sub, channel, idle_left, dispatched,
                 yielded, scenario, seen>>

\* The timeout comes due with result_event not set: the handler is removed
\* and TimeoutError is raised.
Timeout(r) ==
  /\ requests[r].pc = "waiting"
  /\ ~requests[r].result_event
  /\ requests[r].left = 0
  /\ requests' = [requests EXCEPT ![r] =
       [@ EXCEPT !.pc = "timeout",
                 !.raised = "Timeout waiting for " \o requests[r].event_type \o " response"]]
  /\ event_handlers' = remove(event_handlers, r)
  /\ last' = Step("timeout", r)
  /\ UNCHANGED <<pc, turn, check_session_state, sub, channel, idle_left, dispatched,
                 yielded, scenario, seen>>

\* A second passes for the calls that wait; a call whose reply or timeout is
\* due runs first.
RequestTick ==
  /\ \E r \in RequestIds : requests[r].pc = "waiting"
  /\ \A r \in RequestIds : requests[r].pc = "waiting" =>
        ~requests[r].result_event /\ requests[r].left > 0
  /\ requests' = [r \in RequestIds |->
       IF requests[r].pc = "waiting"
         THEN [requests[r] EXCEPT !.left = @ - 1, !.waited = @ + 1]
         ELSE requests[r]]
  /\ last' = Step("tick", None)
  /\ UNCHANGED <<pc, turn, event_handlers, check_session_state, sub, channel, idle_left,
                 dispatched, yielded, scenario, seen>>

\* ------------------------------------------------------ the event loop
\* Whether the handler h raises when it is called with e: the turn's handler
\* and the subscriber's _handler call payload.get first; a response_handler
\* reads the envelope only for its own event type, metadata first, the
\* payload when it has a session id or the request id matches.
raises(h, e) ==
  IF h \in RequestIds
    THEN /\ e.event = requests[h].event_type
         /\ \/ e.malformed = "metadata"
            \/ /\ e.malformed = "payload"
               /\ (requests[h].session_id # None \/ e.request_id = h)
  ELSE e.malformed = "payload"

RECURSIVE upto_raise(_, _)
upto_raise(hs, e) ==
  IF hs = <<>> THEN <<>>
  ELSE IF raises(Head(hs), e) THEN <<Head(hs)>>
  ELSE <<Head(hs)>> \o upto_raise(Tail(hs), e)

\* on_any: the handlers it calls with e, in order: those of a copy of the
\* list, when the data of the event is a dict, until one of them raises.
on_any_calls(hs, e) ==
  IF e.malformed = "top" THEN <<>> ELSE upto_raise(hs, e)

\* The handler h is called with e and returns.
Delivered(hs, h, e) ==
  /\ ~raises(h, e)
  /\ LET calls == on_any_calls(hs, e)
     IN  \E i \in 1..Len(calls) : calls[i] = h

\* on_any: the wildcard socket.io handler dispatches one inbound event
on_any(hs, t, e) ==
  IF Delivered(hs, "handler", e) THEN handler(t, e) ELSE t

\* on_any, for the response handlers in the list
on_any_requests(hs, rs, e) ==
  [r \in RequestIds |->
     IF Delivered(hs, r, e) THEN response_handler(Got(rs[r], r, e), r, e) ELSE rs[r]]

\* The number of inbound events a specification explores.
\* _handler of subscribe: every event of the session, or without session
\* id, is put on the subscriber's queue as it is
_handler(u, e) ==
  IF Truthy(e.session_id) /\ e.session_id # SessionId THEN u
  ELSE LET evt == [ChatEvent(e.event, SessionId, e.message_id, e.data, "pass")
                     EXCEPT !.metadata = e.metadata]
       IN  [u EXCEPT !.queue = Append(@, evt), !.puts = Append(@, evt)]

on_any_sub(hs, u, e) == IF Delivered(hs, "_handler", e) THEN _handler(u, e) ELSE u

Limit(s) == IF s = "request" THEN MaxReplies ELSE MaxEvents

OnAny(e) ==
  /\ dispatched < Limit(scenario)
  /\ dispatched' = dispatched + 1
  /\ turn' = on_any(event_handlers, turn, e)
  /\ requests' = on_any_requests(event_handlers, requests, e)
  /\ seen' = [(IF Delivered(event_handlers, "handler", e) THEN SeenOnAny(e) ELSE seen)
               EXCEPT !.called = on_any_calls(event_handlers, e)]
  /\ sub' = on_any_sub(event_handlers, sub, e)
  /\ last' = Step("on_any", e)
  /\ UNCHANGED <<pc, event_handlers, check_session_state, channel, idle_left, yielded, scenario>>

\* A call_later handle comes due: flush_wl(step_id) runs.
TimerFire(h) ==
  /\ h \in DOMAIN turn.scheduled
  /\ turn.scheduled[h].left = 0
  /\ turn' = flush_wl([turn EXCEPT !.scheduled = Pop(@, h)], turn.scheduled[h].step_id)
  /\ seen' = SeenFlush(turn.scheduled[h].step_id)
  /\ last' = Step("flush_wl", turn.scheduled[h].step_id)
  /\ UNCHANGED <<pc, event_handlers, check_session_state, sub, channel, requests, idle_left, dispatched, yielded, scenario>>

\* One second passes.  Nothing that is due is left waiting.
Tick ==
  /\ \A h \in DOMAIN turn.scheduled : turn.scheduled[h].left > 0
  /\ pc = "waiting" => (turn.queue = <<>> /\ idle_left > 0)
  /\ \/ turn.scheduled # <<>>
     \/ pc = "waiting"
  /\ turn' = [turn EXCEPT !.scheduled =
                [h \in DOMAIN @ |-> [@[h] EXCEPT !.left = @ - 1]]]
  /\ idle_left' = IF pc = "waiting" THEN idle_left - 1 ELSE idle_left
  /\ seen' = SeenTick
  /\ last' = Step("tick", None)
  /\ UNCHANGED <<pc, event_handlers, check_session_state, sub, channel, requests, dispatched, yielded, scenario>>

Next ==
  \/ Start
  \/ \E a \in CheckAnswers : EagerCheckReturn(a)
  \/ Get
  \/ IdleTimeout
  \/ \E a \in CheckAnswers : IdleCheckReturn(a)
  \/ Pull
  \/ Close
  \/ CloseAgain
  \/ \E e \in Inbound(scenario) : OnAny(e)
  \/ \E h \in DOMAIN turn.scheduled : TimerFire(h)
  \/ Tick

Init == InitOf("turn")
InitText == InitOf("text")
InitWorkLog == InitOf("work_log")
InitState == InitOf("state")
InitSubstantive == InitOf("substantive")
InitAbsent == InitOf("absent")
InitUnknown == InitOf("unknown")
InitStatus == InitOf("status")
InitPass == InitOf("pass")
InitSessions == InitOf("sessions")

\* A turn of work-log events on a transport where another subscriber (the
\* _handler of AsyncPineAI.subscribe) has registered its handler before.
InitClose ==
  /\ scenario = "work_log"
  /\ pc = "created"
  /\ turn = NewTurn
  /\ event_handlers = <<"_handler">>
  /\ requests = [r \in RequestIds |-> NoRequest]
  /\ channel = NoChannel
  /\ sub = NoSub
  /\ check_session_state \in BOOLEAN
  /\ idle_left = 0
  /\ dispatched = 0
  /\ yielded = <<>>
  /\ seen = NothingSeen
  /\ last = Step("init", None)

Spec == Init /\ [][Next]_vars
SpecText == InitText /\ [][Next]_vars
SpecWorkLog == InitWorkLog /\ [][Next]_vars
SpecState == InitState /\ [][Next]_vars
SpecSubstantive == InitSubstantive /\ [][Next]_vars
SpecAbsent == InitAbsent /\ [][Next]_vars
SpecUnknown == InitUnknown /\ [][Next]_vars
SpecStatus == InitStatus /\ [][Next]_vars
SpecPass == InitPass /\ [][Next]_vars
SpecSessions == InitSessions /\ [][Next]_vars
SpecClose == InitClose /\ [][Next]_vars

\* -------------------------------------------------------- a later turn
\* The caller calls _listen again for the session after the generator of
\* the turn before has finished: a new generator, not yet started.
Reopen ==
  /\ pc \in {"closed", "cancelled"}
  /\ seen.turns < MaxTurns
  /\ pc' = "created"
  /\ yielded' = <<>>
  /\ seen' = [NothingSeen EXCEPT
                !.turns = seen.turns + 1,
                !.lost = [text_buffer |-> turn.text_buffer,
                          wl_buffers |-> turn.wl_buffers]]
  /\ last' = Step("listen", None)
  /\ UNCHANGED <<turn, event_handlers, check_session_state, sub, channel, requests,
                 idle_left, dispatched, scenario>>

\* ------------------------------------------------------- subscribe()
\* while self.connected: ... ; finally: remove()
sub_loop_top(u, hs) ==
  IF u.connected
    THEN /\ sub' = [u EXCEPT !.pc = "waiting"]
         /\ event_handlers' = hs
    ELSE /\ sub' = [u EXCEPT !.pc = "ended"]
         /\ event_handlers' = remove(hs, "_handler")

\* The caller's first __anext__ of subscribe().
Subscribe ==
  /\ sub.pc = "created"
  /\ IF sub.connected
       THEN sub_loop_top(sub, add_event_handler(event_handlers, "_handler"))
       ELSE /\ sub' = [sub EXCEPT !.pc = "ended"]
            /\ UNCHANGED event_handlers
  /\ last' = Step("subscribe", None)
  /\ UNCHANGED <<pc, turn, check_session_state, channel, requests, idle_left,
                 dispatched, yielded, scenario, seen>>

\* yield await asyncio.wait_for(queue.get(), timeout=5.0): an item is there.
SubGet ==
  /\ sub.pc = "waiting"
  /\ sub.queue # <<>>
  /\ sub' = [sub EXCEPT !.pc = "yielded", !.queue = Tail(@),
                        !.out = Append(@, Head(sub.queue))]
  /\ last' = Step("sub_get", None)
  /\ UNCHANGED <<pc, turn, event_handlers, check_session_state, channel,
                 requests, idle_left, dispatched, yielded, scenario, seen>>

\* The wait_for of subscribe times out after 5 s without an item: continue.
SubTimeout ==
  /\ sub.pc = "waiting"
  /\ sub.queue = <<>>
  /\ sub_loop_top(sub, event_handlers)
  /\ last' = Step("sub_timeout", None)
  /\ UNCHANGED <<pc, turn, check_session_state, channel, requests, idle_left,
                 dispatched, yielded, scenario, seen>>

\* The caller's next __anext__ on the generator suspended at its yield.
SubPull ==
  /\ sub.pc = "yielded"
  /\ sub_loop_top(sub, event_handlers)
  /\ last' = Step("sub_pull", None)
  /\ UNCHANGED <<pc, turn, check_session_state, channel, requests, idle_left,
                 dispatched, yielded, scenario, seen>>

\* The caller closes the generator (aclose).
SubClose ==
  /\ sub.pc \in {"created", "waiting", "yielded"}
  /\ sub' = [sub EXCEPT !.pc = "cancelled"]
  /\ event_handlers' = IF sub.pc = "created" THEN event_handlers
                        ELSE remove(event_handlers, "_handler")
  /\ last' = Step("sub_close", sub.pc)
  /\ UNCHANGED <<pc, turn, check_session_state, channel, requests, idle_left,
                 dispatched, yielded, scenario, seen>>

\* The socket disconnects (disconnect(), or the connection is lost).
Disconnect ==
  /\ sub.connected
  /\ sub' = [sub EXCEPT !.connected = FALSE]
  /\ last' = Step("disconnect", None)
  /\ UNCHANGED <<pc, turn, event_handlers, check_session_state, channel,
                 requests, idle_left, dispatched, yielded, scenario, seen>>

\* ------------------------------------------------------------ the sends
Sends(ch) == ch.tasks + ch.sent + ch.logged + ch.unhandled
Conn(connected) == IF connected THEN "connected" ELSE "not_connected"

\* emit() that schedules the task whether or not the socket is connected
emit_unchecked(ch, connected) ==
  [ch EXCEPT !.tasks = @ + 1, !.raised = None]

\* SocketIOManager.emit: raises when not connected, else schedules _do_emit
emit(ch, connected) ==
  IF ~connected
    THEN [ch EXCEPT !.raised = "Socket.IO not connected"]
    ELSE [ch EXCEPT !.tasks = @ + 1, !.raised = None]

\* _do_emit with no try/except around the socket's emit
do_emit_unguarded(ch, ok) ==
  IF ok
    THEN [ch EXCEPT !.tasks = @ - 1, !.sent = @ + 1]
    ELSE [ch EXCEPT !.tasks = @ - 1, !.unhandled = @ + 1]

\* _do_emit: await self._sio.emit(...), a failure is logged
do_emit(ch, ok) ==
  IF ok
    THEN [ch EXCEPT !.tasks = @ - 1, !.sent = @ + 1]
    ELSE [ch EXCEPT !.tasks = @ - 1, !.logged = @ + 1]

\* A fire-and-forget send (send_message, leave_session, ...).
Emit(connected) ==
  /\ Sends(channel) < MaxSends
  /\ channel' = emit(channel, connected)
  /\ last' = Step("emit", Conn(connected))
  /\ UNCHANGED <<pc, turn, event_handlers, check_session_state, sub, requests,
                 idle_left, dispatched, yielded, scenario, seen>>

\* The first __anext__ of chat(): the message is sent, then _listen starts.
\* When emit raises, the generator ends before _listen is entered.
Chat(connected) ==
  /\ pc = "created"
  /\ Sends(channel) < MaxSends
  /\ channel' = emit(channel, connected)
  /\ IF channel'.raised # None
       THEN Reach("closed", turn, event_handlers, 0, <<>>)
       ELSE IF check_session_state
              THEN Reach("eager_check", turn, event_handlers, 0, <<>>)
              ELSE setup
  /\ last' = Step("chat", Conn(connected))
  /\ UNCHANGED <<check_session_state, sub, requests, dispatched, scenario, seen>>

\* The event loop runs a scheduled _do_emit task to its end.
DoEmit(ok) ==
  /\ channel.tasks > 0
  /\ channel' = do_emit(channel, ok)
  /\ last' = Step("_do_emit", IF ok THEN "returns" ELSE "raises")
  /\ UNCHANGED <<pc, turn, event_handlers, check_session_state, sub, requests,
                 idle_left, dispatched, yielded, scenario, seen>>

\* The emit_and_wait calls, with no turn open.
NextRequest ==
  \/ \E r \in RequestIds, sid \in {SessionId, None}, c \in BOOLEAN :
        Call(r, "SESSION_JOIN", sid, c)
  \/ \E r \in RequestIds : EmitReturns(r)
  \/ \E r \in RequestIds : EmitRaises(r)
  \/ \E r \in RequestIds : Resume(r)
  \/ \E r \in RequestIds : Timeout(r)
  \/ \E e \in Inbound(scenario) : OnAny(e)
  \/ RequestTick

\* A turn and join requests of its session on one transport; no time
\* passes (no timeout of the turn or of a request comes due).
NextJoint ==
  \/ Start
  \/ Get
  \/ Pull
  \/ Close
  \/ \E r \in RequestIds : Call(r, "SESSION_JOIN", SessionId, TRUE)
  \/ \E r \in RequestIds : EmitReturns(r)
  \/ \E r \in RequestIds : Resume(r)
  \/ \E e \in Inbound(scenario) : OnAny(e)

InitJoint ==
  /\ scenario = "joint"
  /\ pc = "created"
  /\ turn = NewTurn
  /\ event_handlers = <<>>
  /\ requests = [r \in RequestIds |-> NoRequest]
  /\ channel = NoChannel
  /\ sub = NoSub
  /\ check_session_state = FALSE
  /\ idle_left = 0
  /\ dispatched = 0
  /\ yielded = <<>>
  /\ seen = NothingSeen
  /\ last = Step("init", None)

SpecJoint == InitJoint /\ [][NextJoint]_vars

InitRequest ==
  /\ scenario = "request"
  /\ pc = "created"
  /\ turn = NewTurn
  /\ event_handlers = <<>>
  /\ requests = [r \in RequestIds |-> NoRequest]
  /\ channel = NoChannel
  /\ sub = NoSub
  /\ check_session_state = FALSE
  /\ idle_left = 0
  /\ dispatched = 0
  /\ yielded = <<>>
  /\ seen = NothingSeen
  /\ last = Step("init", None)
SpecRequest == InitRequest /\ [][NextRequest]_vars

\* A subscriber of the session on a transport that may disconnect; events
\* are dispatched while the socket is connected.
NextSubscribe ==
  \/ Subscribe
  \/ SubGet
  \/ SubTimeout
  \/ SubPull
  \/ SubClose
  \/ Disconnect
  \/ \E e \in Inbound(scenario) : sub.connected /\ OnAny(e)

InitSubscribe ==
  /\ scenario = "subscribe"
  /\ pc = "created"
  /\ turn = NewTurn
  /\ event_handlers = <<>>
  /\ requests = [r \in RequestIds |-> NoRequest]
  /\ channel = NoChannel
  /\ sub = NoSub
  /\ check_session_state = FALSE
  /\ idle_left = 0
  /\ dispatched = 0
  /\ yielded = <<>>
  /\ seen = NothingSeen
  /\ last = Step("init", None)
SpecSubscribe == InitSubscribe /\ [][NextSubscribe]_vars

\* A turn opened by chat() on a connected transport by an engine that has a
\* check_session_state; no time passes.
NextChat ==
  \/ Chat(TRUE)
  \/ \E ok \in BOOLEAN : DoEmit(ok)
  \/ \E a \in CheckAnswers : EagerCheckReturn(a)
  \/ Get
  \/ Pull
  \/ Close
  \/ \E e \in Inbound(scenario) : OnAny(e)

InitChat ==
  /\ scenario = "send"
  /\ pc = "created"
  /\ turn = NewTurn
  /\ event_handlers = <<>>
  /\ requests = [r \in RequestIds |-> NoRequest]
  /\ channel = NoChannel
  /\ sub = NoSub
  /\ check_session_state = TRUE
  /\ idle_left = 0
  /\ dispatched = 0
  /\ yielded = <<>>
  /\ seen = NothingSeen
  /\ last = Step("init", None)
SpecChat == InitChat /\ [][NextChat]_vars

\* Turns opened one after the other on the same session, by an engine
\* without check_session_state.
NextReopen ==
  \/ Start
  \/ Get
  \/ IdleTimeout
  \/ Pull
  \/ Close
  \/ Reopen
  \/ \E e \in Inbound(scenario) : OnAny(e)
  \/ \E h \in DOMAIN turn.scheduled : TimerFire(h)
  \/ Tick

InitReopen ==
  /\ scenario = "reopen"
  /\ pc = "created"
  /\ turn = NewTurn
  /\ event_handlers = <<>>
  /\ requests = [r \in RequestIds |-> NoRequest]
  /\ channel = NoChannel
  /\ sub = NoSub
  /\ check_session_state = FALSE
  /\ idle_left = 0
  /\ dispatched = 0
  /\ yielded = <<>>
  /\ seen = NothingSeen
  /\ last = Step("init", None)
SpecReopen == InitReopen /\ [][NextReopen]_vars

\* A turn opened by chat(), fire-and-forget sends and a join request on one
\* transport that is connected at some sends and not at others; no time
\* passes (no timeout and no debounce timer comes due).
NextSend ==
  \/ \E c \in BOOLEAN : Chat(c)
  \/ \E c \in BOOLEAN : Emit(c)
  \/ \E ok \in BOOLEAN : DoEmit(ok)
  \/ \E c \in BOOLEAN : Call("r1", "SESSION_JOIN", SessionId, c)
  \/ Get
  \/ Pull
  \/ Close
  \/ \E e \in Inbound(scenario) : OnAny(e)

InitSend ==
  /\ scenario = "send"
  /\ pc = "created"
  /\ turn = NewTurn
  /\ event_handlers = <<>>
  /\ requests = [r \in RequestIds |-> NoRequest]
  /\ channel = NoChannel
  /\ sub = NoSub
  /\ check_session_state = FALSE
  /\ idle_left = 0
  /\ dispatched = 0
  /\ yielded = <<>>
  /\ seen = NothingSeen
  /\ last = Step("init", None)
SpecSend == InitSend /\ [][NextSend]_vars

\* ================================================================ claims
LastOf(q) == q[Len(q)]
IsPrefix(a, b) == Len(a) <= Len(b) /\ SubSeq(b, 1, Len(a)) = a

\* The step dispatches e and the turn's handler is called with it.
Handled(e) ==
  /\ Subscribed
  /\ dispatched' = dispatched + 1
  /\ last' = Step("on_any", e)

\* The finished event handler makes of a pass-through event.
Passed(e) == ChatEvent(e.event, SessionId, e.message_id, e.data, "pass")

\* C1: the text fragments of one message id, the last one final, give exactly
\* one SESSION_TEXT event, put when the final fragment arrives, whose content
\* is the fragments' contents concatenated in arrival order; a fragment that
\* is not final puts nothing; after the final one the buffer has no entry
\* for the message id.
C1_TextReassembly ==
  [][\A e \in Inbound(scenario) :
       (Handled(e) /\ e.event = "SESSION_TEXT_PART" /\ Received(e)) =>
         IF e.data.final
           THEN /\ turn'.puts = Append(turn.puts,
                      ChatEvent("SESSION_TEXT", SessionId, e.message_id,
                        [kind |-> "dict",
                         content |-> Join(Append(seen.frags[KeyOf(e)], e.data.content))],
                        "text"))
                /\ turn'.queue = Append(turn.queue, LastOf(turn'.puts))
                /\ KeyOf(e) \notin DOMAIN turn'.text_buffer
           ELSE /\ turn'.puts = turn.puts
                /\ turn'.queue = turn.queue]_vars

\* Three fragments "a", "b", "a" of m1 have given the one event "aba".
C1_Witness ==
  /\ last = Step("on_any", Text("m1", "a", TRUE))
  /\ Len(turn.puts) = 1
  /\ turn.puts[1].type = "SESSION_TEXT"
  /\ turn.puts[1].data.content = "aba"
  /\ "m1" \notin DOMAIN turn.text_buffer

\* C2: no yielded event is a raw fragment: none has the text_part type, a
\* work_log_part event comes from a debounce flush, and every event is a
\* pass-through, a reassembled SESSION_TEXT, a flush or the SESSION_STATE
\* made from a state check.
C2_NoRawFragment ==
  \A i \in 1..Len(yielded) :
    /\ yielded[i].type # "SESSION_TEXT_PART"
    /\ yielded[i].type = "SESSION_WORK_LOG_PART" <=> yielded[i].origin = "flush"
    /\ yielded[i].origin = "text" => yielded[i].type = "SESSION_TEXT"
    /\ yielded[i].origin = "check" => yielded[i].type = "SESSION_STATE"
    /\ yielded[i].origin \in {"pass", "text", "flush", "check"}

\* A reassembled text, a flushed work log and a pass-through were yielded.
C2_Witness ==
  /\ Len(yielded) = 3
  /\ \E i \in 1..3 : yielded[i].origin = "text"
  /\ \E i \in 1..3 : yielded[i].origin = "flush"
  /\ \E i \in 1..3 : yielded[i].origin = "pass"

\* C3: a work-log event is put for a step only when DebounceS seconds have
\* passed since the step's last delta, and it carries the deltas received
\* since the step's previous flush; while deltas of a step wait in an open
\* turn exactly one flush is scheduled for it, due DebounceS seconds after
\* the last of them.
FlushPut(s) ==
  /\ Len(turn'.puts) = Len(turn.puts) + 1
  /\ LastOf(turn'.puts).type = "SESSION_WORK_LOG_PART"
  /\ LastOf(turn'.puts).data.step_id = s

HandlesOf(s) == {h \in DOMAIN turn.scheduled : turn.scheduled[h].step_id = s}

C3_Debounce ==
  /\ [][\A s \in StepIds :
          FlushPut(s) =>
            /\ seen.deltas[s] # <<>>
            /\ seen.since[s] = DebounceS
            /\ LastOf(turn'.puts).data.text = Join(seen.deltas[s])
            /\ seen'.deltas[s] = <<>>]_vars
  /\ [](\A s \in StepIds :
          (Subscribed /\ seen.deltas[s] # <<>>) =>
            /\ Cardinality(HandlesOf(s)) = 1
            /\ \A h \in HandlesOf(s) :
                 turn.scheduled[h].left = DebounceS - seen.since[s])

\* "x" and "y" of w1 were flushed as "xy"; an "x" that came after the flush
\* was flushed alone.
C3_Witness ==
  /\ last = Step("flush_wl", "w1")
  /\ Len(turn.puts) = 2
  /\ turn.puts[1].type = "SESSION_WORK_LOG_PART"
  /\ turn.puts[1].data.text = "xy"
  /\ turn.puts[2].type = "SESSION_WORK_LOG_PART"
  /\ turn.puts[2].data.text = "x"

\* A waiting_input input-state event, as handler tests it.
IsWaitingInput(e) ==
  /\ e.event = "SESSION_INPUT_STATE"
  /\ Received(e)
  /\ e.data.content = "waiting_input"

\* A substantive event has been emitted in the turn.
SubstantiveAt(q, i) == ~IsNone(q[i]) /\ q[i].type \in SubstantiveTypes
SubstantiveEmitted == \E i \in 1..Len(turn.puts) : SubstantiveAt(turn.puts, i)

\* C4: a waiting_input received before any substantive event has been
\* emitted does not end the turn: it is put on the queue as a pass-through
\* event, without a sentinel, and done and the generator stay as they are.
C4_EarlyWaitingInput ==
  [][\A e \in Inbound(scenario) :
       (Handled(e) /\ IsWaitingInput(e) /\ ~SubstantiveEmitted) =>
         /\ turn'.done = turn.done
         /\ turn'.puts = Append(turn.puts, Passed(e))
         /\ turn'.queue = Append(turn.queue, Passed(e))
         /\ pc' = pc]_vars

\* waiting_input came first, was yielded, and the turn waits again.
C4_Witness ==
  /\ last = Step("pull", "yielded")
  /\ yielded = <<Passed(InputState("waiting_input"))>>
  /\ turn.puts = yielded
  /\ pc = "waiting"
  /\ ~turn.done

\* C5: a waiting_input received after a text reassembled from fragments has
\* been emitted ends the turn.
C5_WaitingInputAfterText ==
  [][\A e \in Inbound(scenario) :
       (/\ Handled(e)
        /\ IsWaitingInput(e)
        /\ \E i \in 1..Len(turn.puts) :
             SubstantiveAt(turn.puts, i) /\ turn.puts[i].origin = "text") =>
         turn'.done]_vars

\* C6: after a pass-through substantive event the next waiting_input ends
\* the turn, and a generator that has run to its end has yielded the
\* substantive event and then the waiting_input.
PassedSubstantiveAt(q, i) == SubstantiveAt(q, i) /\ q[i].origin = "pass"
WaitingInputAt(q, i) ==
  /\ ~IsNone(q[i])
  /\ q[i].origin = "pass"
  /\ q[i].type = "SESSION_INPUT_STATE"
  /\ q[i].data.content = "waiting_input"

C6_WaitingInputAfterSubstantive ==
  /\ [][\A e \in Inbound(scenario) :
          (/\ Handled(e)
           /\ IsWaitingInput(e)
           /\ \E i \in 1..Len(turn.puts) : PassedSubstantiveAt(turn.puts, i)) =>
            /\ turn'.done
            /\ turn'.puts = turn.puts \o <<Passed(e), Sentinel>>
            /\ turn'.queue = turn.queue \o <<Passed(e), Sentinel>>]_vars
  /\ [](pc = "closed" =>
          \A i, j \in 1..Len(turn.puts) :
            (i < j /\ PassedSubstantiveAt(turn.puts, i) /\ WaitingInputAt(turn.puts, j)) =>
              \E a, b \in 1..Len(yielded) :
                a < b /\ yielded[a] = turn.puts[i] /\ yielded[b] = turn.puts[j])

\* A reward and then waiting_input: both yielded, in that order, and closed.
C6_Witness ==
  /\ pc = "closed"
  /\ turn.puts = <<Passed(Raw("SESSION_REWARD", SessionId, "m9", Content("c"))),
                   Passed(InputState("waiting_input")), Sentinel>>
  /\ yielded = SubSeq(turn.puts, 1, 2)

\* C7: a session-state event with a terminal content ends the turn, whatever
\* was emitted before, and a generator that has run to its end has yielded
\* it; a session-state event with another content leaves done as it is.
C7_TerminalState ==
  /\ [][\A e \in Inbound(scenario) :
          (Handled(e) /\ e.event = "SESSION_STATE" /\ Received(e)) =>
            IF e.data.content \in TerminalContents
              THEN /\ turn'.done
                   /\ turn'.puts = turn.puts \o <<Passed(e), Sentinel>>
                   /\ turn'.queue = turn.queue \o <<Passed(e), Sentinel>>
              ELSE /\ turn'.done = turn.done
                   /\ turn'.puts = Append(turn.puts, Passed(e))
                   /\ turn'.queue = Append(turn.queue, Passed(e))]_vars
  /\ [](pc = "closed" =>
          \A i \in 1..Len(turn.puts) :
            (/\ ~IsNone(turn.puts[i])
             /\ turn.puts[i].origin = "pass"
             /\ turn.puts[i].type = "SESSION_STATE") =>
              \E a \in 1..Len(yielded) : yielded[a] = turn.puts[i])

\* task_stale as the only event of the turn: yielded, and the turn closed.
C7_Witness ==
  /\ pc = "closed"
  /\ turn.puts = <<Passed(State("task_stale")), Sentinel>>
  /\ yielded = <<Passed(State("task_stale"))>>
  /\ ~turn.received_agent_response

\* C8: a generator that has run to its end after a termination has yielded
\* every event put on the queue before the first sentinel, in the order of
\* the puts.
RECURSIVE BeforeSentinel(_)
BeforeSentinel(q) ==
  IF q = <<>> \/ IsNone(Head(q)) THEN <<>>
  ELSE <<Head(q)>> \o BeforeSentinel(Tail(q))

FromQueue(ys) == SelectSeq(ys, LAMBDA y : y.origin # "check")

C8_DrainBeforeClose ==
  (pc = "closed" /\ turn.done) =>
     IsPrefix(BeforeSentinel(turn.puts), FromQueue(yielded))

\* The turn ended while the form was still queued behind a yielded event:
\* the drain loop yielded the form and the terminating event.
C8_Witness ==
  /\ pc = "closed"
  /\ last = Step("pull", "drain_yield")
  /\ turn.puts = <<Passed(State("chat")), Passed(Form),
                   Passed(State("task_finished")), Sentinel>>
  /\ yielded = SubSeq(turn.puts, 1, 3)

\* C9: once the sentinel is on the queue the turn takes no more events: the
\* caller is yielded only events that were put before the sentinel.
C9_NothingAfterSentinel ==
  turn.done => IsPrefix(FromQueue(yielded), BeforeSentinel(turn.puts))

\* C10 as stated: an idle check that answers a non-terminal state leaves the
\* turn open and its buffers, timers, queue and flag unchanged.
IdleResumes ==
  /\ pc = "idle_check"
  /\ last' = Step("idle_check", "chat")

TurnKept ==
  /\ turn'.text_buffer = turn.text_buffer
  /\ turn'.wl_buffers = turn.wl_buffers
  /\ turn'.wl_timers = turn.wl_timers
  /\ turn'.scheduled = turn.scheduled
  /\ turn'.queue = turn.queue
  /\ turn'.received_agent_response = turn.received_agent_response
  /\ turn'.done = turn.done

C10_IdleResumeKeepsAll ==
  [][IdleResumes => (pc' = "waiting" /\ TurnKept)]_vars

\* C10 amended: the same, when no terminating event was received while the
\* check was in flight; and in an open turn the buffer of a key always holds
\* the non-empty fragments received under it since its last final fragment,
\* so that the final fragment gives them all.
NonEmpty(l) == SelectSeq(l, LAMBDA c : c # "")

C10_IdleResumeKeepsAllUnlessDone ==
  /\ [][(IdleResumes /\ ~turn.done) => (pc' = "waiting" /\ TurnKept)]_vars
  /\ [](Subscribed =>
          \A k \in MessageKeys :
            NonEmpty(seen.frags[k]) =
              IF k \in DOMAIN turn.text_buffer THEN turn.text_buffer[k] ELSE <<>>)

\* "a" was buffered when the idle check let the turn resume; the final "b"
\* that came afterwards gave "ab".
C10_Witness ==
  /\ last = Step("on_any", Text("m1", "b", TRUE))
  /\ "m1" \in seen.resumed
  /\ turn.puts = <<ChatEvent("SESSION_TEXT", SessionId, "m1",
                     [kind |-> "dict", content |-> "ab"], "text")>>

\* The idle check of this step answered a terminal state.
IdleTerminal(state) ==
  /\ pc = "idle_check"
  /\ last' = Step("idle_check", state)
  /\ state \in TerminalContents

Synthesized == {i \in DOMAIN yielded : yielded[i].origin = "check"}

\* C11: when the idle timeout has fired and the state check reports a
\* terminal state, the turn yields one synthesized session-state event that
\* carries that state, it yields no second synthesized event, and it then
\* closes: it never waits for events again, its remaining steps only hand
\* over what is left in the queue.
C11_IdleTerminalCloses ==
  /\ [][\A state \in TerminalContents : IdleTerminal(state) =>
          /\ yielded' = Append(yielded,
                ChatEvent("SESSION_STATE", SessionId, None, Content(state),
                          "check"))
          /\ pc' = "check_yield"]_vars
  /\ [][Synthesized # {} => pc' \notin {"waiting", "idle_check", "eager_check"}]_vars
  /\ [](Cardinality(Synthesized) <= 1)

C11_Witness ==
  /\ pc = "closed"
  /\ last = Step("pull", "check_yield")
  /\ check_session_state
  /\ Len(yielded) >= 2
  /\ LastOf(yielded).origin = "check"

\* The idle timeout of this step starts the state check.
IdleCheckStarts ==
  /\ pc = "waiting"
  /\ pc' = "idle_check"

\* C12: the idle-timeout state check is performed only when no inbound
\* event for the session has arrived during a full idle-timeout interval;
\* any inbound event for the session, a non-final text fragment or a
\* work-log delta included, restarts the interval.
C12_CheckOnlyAfterQuietInterval ==
  [][IdleCheckStarts => seen.quiet >= IdleTimeoutS]_vars

\* The eager check of this step gave this answer.
EagerAnswers(answer) ==
  /\ pc = "eager_check"
  /\ last' = Step("eager_check", answer)

\* C13: with a state check configured, the check is made once before the
\* turn listens. A terminal answer makes the turn yield exactly one
\* session-state event carrying that state and close with no handler ever
\* subscribed and nothing buffered, queued or scheduled; a non-terminal
\* answer makes it subscribe its handler and wait for events.
C13_EagerCheck ==
  /\ [][pc' = "eager_check" => pc \in {"created", "eager_check"}]_vars
  /\ [][\A state \in TerminalContents : EagerAnswers(state) =>
          /\ yielded' = <<ChatEvent("SESSION_STATE", SessionId, None,
                                    Content(state), "check")>>
          /\ pc' = "eager_yield"
          /\ event_handlers' = <<>>
          /\ turn' = NewTurn]_vars
  /\ [][pc = "eager_yield" =>
          /\ pc' \in {"eager_yield", "closed", "cancelled"}
          /\ UNCHANGED <<event_handlers, turn, yielded>>]_vars
  /\ [][EagerAnswers("chat") =>
          /\ pc' = "waiting"
          /\ event_handlers' = <<"handler">>
          /\ yielded' = <<>>]_vars

C13_Witness ==
  /\ pc = "closed"
  /\ last = Step("pull", "eager_yield")
  /\ dispatched > 0
  /\ Len(yielded) = 1
  /\ turn = NewTurn

\* The idle check of this step raised.
IdleCheckFails ==
  /\ pc = "idle_check"
  /\ last' = Step("idle_check", Raises)

\* C14: a failure of the state check, eager or at the idle timeout, is
\* swallowed: the turn is not closed, its handler is subscribed, its buffers
\* are unchanged, and it keeps waiting for events.
C14_CheckFailureSwallowed ==
  /\ [][EagerAnswers(Raises) =>
          /\ pc' = "waiting"
          /\ event_handlers' = <<"handler">>
          /\ turn' = NewTurn
          /\ yielded' = yielded]_vars
  /\ [][IdleCheckFails =>
          /\ pc' = "waiting"
          /\ UNCHANGED <<event_handlers, turn, yielded>>]_vars

\* C14 as amended: the same, except that a turn whose handler set done
\* while the idle check was awaited does not wait again.
C14_CheckFailureSwallowedUnlessDone ==
  /\ [][EagerAnswers(Raises) =>
          /\ pc' = "waiting"
          /\ event_handlers' = <<"handler">>
          /\ turn' = NewTurn
          /\ yielded' = yielded]_vars
  /\ [][IdleCheckFails /\ ~turn.done =>
          /\ pc' = "waiting"
          /\ UNCHANGED <<event_handlers, turn, yielded>>]_vars

C14_Witness ==
  /\ pc = "waiting"
  /\ last = Step("idle_check", Raises)
  /\ \E k \in DOMAIN turn.text_buffer : turn.text_buffer[k] # <<>>
  /\ Subscribed

IsClosed == pc \in {"closed", "cancelled"}

\* C15: after a turn has closed, by normal termination or because its
\* consumer closed or cancelled it, none of its debounce timers is pending
\* and its handler is not in the handler list, so no step afterwards, a
\* dispatch of an inbound event included, flushes or enqueues anything.
C15_ClosedTurnIsInert ==
  /\ [](IsClosed => turn.scheduled = <<>> /\ ~Subscribed)
  /\ [][IsClosed => UNCHANGED <<turn, yielded, event_handlers>>]_vars

C15_Witness ==
  /\ pc = "cancelled"
  /\ turn.wl_timers # <<>>
  /\ turn.wl_buffers # <<>>
  /\ last.op = "on_any"
  /\ Received(last.arg)

\* The caller closes the generator in this step.
Closing == last'.op = "close" /\ last' # last

RECURSIVE Without(_, _)
Without(hs, h) ==
  IF hs = <<>> THEN <<>>
  ELSE IF Head(hs) = h THEN Without(Tail(hs), h)
  ELSE <<Head(hs)>> \o Without(Tail(hs), h)

\* C16: closing a turn twice, or closing it after it has terminated, is
\* safe: a close takes the turn's own handler out of the handler list and
\* leaves every other handler in it, the handles it cancels are all still
\* pending (none is cancelled a second time), and a close of a turn that is
\* closed already changes nothing.
C16_CloseIsIdempotent ==
  /\ [][Closing => event_handlers' = Without(event_handlers, "handler")]_vars
  /\ [][Closing /\ IsClosed =>
          UNCHANGED <<pc, turn, event_handlers, yielded>>]_vars
  /\ [](~IsClosed => Values(turn.wl_timers) \subseteq DOMAIN turn.scheduled)
  /\ [](\E i \in 1..Len(event_handlers) : event_handlers[i] = "_handler")

C16_Witness ==
  /\ last = Step("close", "cancelled")
  /\ event_handlers = <<"_handler">>
  /\ turn.wl_timers # <<>>
  /\ turn.scheduled = <<>>

\* ------------------------------------------------------------ requests
Pending(r) == requests[r].pc \in {"emitting", "waiting"}

\* This step dispatches the envelope last'.arg to the handlers.
Dispatching ==
  /\ last'.op = "on_any"
  /\ dispatched' = dispatched + 1

\* C17: a request that gets no matching reply fails with the Timeout error
\* that names its event type when its timeout has elapsed, never earlier
\* and never later; a request that got a matching reply before its deadline
\* returns and never fails with Timeout.
C17_TimeoutOrReply ==
  /\ [][\A r \in RequestIds :
          requests[r].pc = "waiting" /\ requests'[r].pc = "timeout" =>
            /\ requests[r].waited = TimeoutS
            /\ requests[r].got = <<>>
            /\ requests'[r].raised =
                 "Timeout waiting for " \o requests[r].event_type \o " response"]_vars
  /\ [][\A r \in RequestIds :
          requests[r].got # <<>> => requests'[r].pc # "timeout"]_vars
  /\ [](\A r \in RequestIds :
          /\ requests[r].pc = "waiting" => requests[r].waited <= TimeoutS
          /\ requests[r].pc = "waiting" /\ requests[r].got # <<>> =>
               requests[r].result_event
          /\ requests[r].pc = "returned" => requests[r].got # <<>>)

C17_Witness ==
  /\ requests["r1"].pc = "timeout"
  /\ requests["r1"].waited = TimeoutS
  /\ requests["r2"].pc = "returned"
  /\ requests["r2"].result_data # <<>>

\* C18: a pending request is resolved by an inbound envelope exactly when
\* the envelope has the request's event type and either carries the
\* request's correlation id, or the request has a session id, the envelope's
\* payload session id equals it and the envelope's source role is not "user".
C18_MatchPredicate ==
  [][\A r \in RequestIds :
       (Dispatching /\ Pending(r) /\ ~requests[r].result_event) =>
         (requests'[r].result_event <=>
            /\ last'.arg.event = requests[r].event_type
            /\ \/ last'.arg.request_id = r
               \/ /\ requests[r].session_id # None
                  /\ last'.arg.session_id = requests[r].session_id
                  /\ last'.arg.role # "user")]_vars

C18_Witness ==
  /\ last.op = "on_any"
  /\ last.arg.request_id = None
  /\ last.arg.role = "assistant"
  /\ requests["r1"].pc = "waiting"
  /\ requests["r1"].result_event
  /\ Len(requests["r1"].got) = 1

\* C19: with several requests outstanding under different correlation ids,
\* a reply that carries the correlation id of one of them resolves that
\* request only: every other outstanding request stays pending.
C19_ReplyResolvesOnlyItsRequest ==
  [][\A r \in RequestIds : \A q \in RequestIds \ {r} :
       (/\ Dispatching
        /\ last'.arg.request_id = r
        /\ Pending(r) /\ Pending(q)
        /\ ~requests[q].result_event) =>
         ~requests'[q].result_event]_vars

Finished(r) == requests[r].pc \in {"returned", "timeout", "send_failed"}

\* C20: when a request has finished, by a match, by its timeout or by a
\* failure of the send, its response handler is not in the handler list.
C20_FinishedRequestLeavesNoHandler ==
  \A r \in RequestIds : Finished(r) => ~Registered(event_handlers, r)

\* ------------------------------------------------------------- dispatch
\* This step resolves the pending request r.
Resolves(r) ==
  /\ Pending(r)
  /\ ~requests[r].result_event
  /\ requests'[r].result_event

\* C21: an inbound envelope that resolves a pending request is not also
\* emitted as a finished event by an open turn of the same session: the
\* dispatch that resolves a request puts nothing on the queue of the turn.
C21_ReplyClaimedByCorrelator ==
  [][(Dispatching /\ \E r \in RequestIds : Resolves(r)) =>
       turn'.puts = turn.puts]_vars

\* The key-wise merge of the dicts of l in order: a key has the value of
\* the last dict that has it.
LastWith(l, k) ==
  CHOOSE i \in 1..Len(l) :
    /\ k \in DOMAIN l[i]
    /\ \A j \in (i + 1)..Len(l) : k \notin DOMAIN l[j]

Merged(l) ==
  [k \in UNION {DOMAIN l[i] : i \in 1..Len(l)} |-> l[LastWith(l, k)][k]]

\* C22: a request resolves with the key-wise merge of the payload data of
\* the matching replies dispatched before it resumes, in arrival order,
\* later values overwriting earlier ones; with one matching reply the
\* result is that reply's payload data, empty when it carries none.
C22_MergedReplies ==
  \A r \in RequestIds :
    (Pending(r) \/ requests[r].pc = "returned") =>
      /\ requests[r].result_data = Merged(requests[r].got)
      /\ Len(requests[r].got) = 1 => requests[r].result_data = requests[r].got[1]

C22_Witness ==
  /\ requests["r1"].pc = "returned"
  /\ Len(requests["r1"].got) = 2
  /\ requests["r1"].got[1] = Put(<<>>, "a", 1)
  /\ requests["r1"].result_data = Put(Put(<<>>, "a", 2), "b", 1)

\* C23: each dispatched inbound event is delivered, in order, to every
\* handler that is registered when the dispatch starts, once: the handlers
\* the dispatch calls are those of the list, none of them misses the event.
C23_EveryHandlerReceives ==
  [][(Dispatching /\ last'.arg.malformed # "top") =>
       seen'.called = event_handlers]_vars

\* C24: a malformed inbound envelope is dropped silently: no handler raises
\* an error out of the dispatch, and the turn and the requests are as they
\* were when the malformed part is one their handlers read.
C24_MalformedDropped ==
  [][(Dispatching /\ last'.arg.malformed # "no") =>
       /\ \A i \in 1..Len(event_handlers) :
            ~raises(event_handlers[i], last'.arg)
       /\ last'.arg.malformed \in {"top", "payload"} =>
            UNCHANGED <<turn, requests, event_handlers, pc>>]_vars

\* The step is a send made while the transport is not connected.
NotConnectedSend ==
  \/ /\ last'.op \in {"emit", "chat"}
     /\ last'.arg = "not_connected"
  \/ /\ last'.op = "emit_and_wait"
     /\ requests'[last'.arg].pc = "not_connected"

\* The step's send has raised to its caller.
SendRaised ==
  IF last'.op = "emit_and_wait"
    THEN requests'[last'.arg].raised # None
    ELSE channel'.raised # None

\* C25: a send made while the transport is not connected (emit, the emit of
\* chat(), emit_and_wait) raises to its caller and has no effect: no
\* _do_emit task is scheduled, nothing reaches the socket, and the handler
\* list, the turn's state and what the turn has yielded are unchanged.
C25_NotConnectedSendHasNoEffect ==
  [][NotConnectedSend =>
       /\ SendRaised
       /\ channel'.tasks = channel.tasks
       /\ channel'.sent = channel.sent
       /\ UNCHANGED <<event_handlers, turn, yielded>>]_vars

\* An emit is refused while a turn is subscribed, has a work-log flush
\* pending and an earlier send is still scheduled.
C25_Witness ==
  /\ last.op = "emit"
  /\ last.arg = "not_connected"
  /\ channel.raised # None
  /\ channel.tasks > 0
  /\ Subscribed
  /\ DOMAIN turn.wl_timers # {}

\* The step runs a _do_emit task in which the socket's emit fails.
DoEmitFails ==
  /\ last'.op = "_do_emit"
  /\ last'.arg = "raises"
  /\ channel'.tasks = channel.tasks - 1

\* C26: when the socket's emit fails inside a scheduled _do_emit task, the
\* failure is logged and no exception leaves the task or reaches a caller;
\* the handler list, the turn (queue, buffers, timers), its position, its
\* idle wait and the outstanding requests are unchanged.
C26_SendFailureIsLogged ==
  [][DoEmitFails =>
       /\ channel'.logged = channel.logged + 1
       /\ channel'.unhandled = channel.unhandled
       /\ channel'.raised = channel.raised
       /\ UNCHANGED <<event_handlers, turn, pc, idle_left, yielded, requests>>]_vars

\* The send of the turn's own chat() fails while the turn waits with a
\* work-log flush pending and a join request registered.
C26_Witness ==
  /\ last.op = "_do_emit"
  /\ last.arg = "raises"
  /\ channel.logged = 1
  /\ channel.sent = 0
  /\ pc = "waiting"
  /\ Subscribed
  /\ DOMAIN turn.wl_timers # {}
  /\ Registered(event_handlers, "r1")

\* The step dispatches an event whose payload has a session id that is not
\* the turn's, while the turn's handler is subscribed.
ForeignDispatch ==
  /\ Dispatching
  /\ Subscribed
  /\ last'.arg.session_id # None
  /\ last'.arg.session_id # SessionId

\* C27 as stated: an event whose payload session id is present and differs
\* from the turn's session leaves the turn (queue, buffers, timers, flags)
\* unchanged.
C27_ForeignEventIgnored ==
  [][ForeignDispatch => UNCHANGED turn]_vars

\* C27: an event whose payload session id is present, not empty and differs
\* from the turn's session leaves the turn (queue, text and work-log
\* buffers, timers, received_agent_response, done), the generator's
\* position, its idle wait and what it has yielded unchanged.
C27_ForeignEventIgnoredNonEmpty ==
  [][(ForeignDispatch /\ last'.arg.session_id # "") =>
       UNCHANGED <<turn, pc, idle_left, yielded>>]_vars

\* A terminal state of another session is dispatched while the turn waits
\* with a text fragment buffered and a work-log flush pending.
C27_Witness ==
  /\ last.op = "on_any"
  /\ last.arg.session_id = "s2"
  /\ last.arg.event = "SESSION_STATE"
  /\ Subscribed
  /\ pc = "waiting"
  /\ ~turn.done
  /\ turn.queue = <<>>
  /\ DOMAIN turn.wl_timers # {}
  /\ DOMAIN turn.text_buffer # {}

\* The finished events of a sequence of queue items (the sentinels left out).
Events(q) == SelectSeq(q, LAMBDA evt : ~IsNone(evt))

\* What the step has put on the turn's queue.
NewPuts == SubSeq(turn'.puts, Len(turn.puts) + 1, Len(turn'.puts))

\* C28: the events a turn yields from its queue are yielded in the order in
\* which they were put; every step only appends to what was put before; a
\* pass-through event is put by the dispatch of its inbound event, a
\* reassembled text by the dispatch of its final fragment, a work-log event
\* by the firing of its flush timer.
C28_YieldedInTriggerOrder ==
  /\ [](IsPrefix(FromQueue(yielded), Events(turn.puts)))
  /\ [][/\ IsPrefix(turn.puts, turn'.puts)
        /\ \A i \in 1..Len(NewPuts) :
             \/ IsNone(NewPuts[i])
             \/ /\ NewPuts[i].origin = "flush"
                /\ last'.op = "flush_wl"
             \/ /\ NewPuts[i].origin = "pass"
                /\ last'.op = "on_any"
                /\ last'.arg.event = NewPuts[i].type
             \/ /\ NewPuts[i].origin = "text"
                /\ last'.op = "on_any"
                /\ last'.arg.event = "SESSION_TEXT_PART"
                /\ last'.arg.data.final]_vars

\* A form, a flushed work-log event and a reassembled text have been
\* yielded in the order form, flush, final fragment.
C28_Witness ==
  /\ Len(yielded) = 3
  /\ yielded[1].origin = "pass"
  /\ yielded[2].origin = "flush"
  /\ yielded[3].origin = "text"

\* The step dispatches a work-log delta that the turn's handler buffers.
WorkLogDelta ==
  /\ Dispatching
  /\ Subscribed
  /\ last'.arg.event = "SESSION_WORK_LOG_PART"
  /\ Received(last'.arg)

\* The flushes scheduled for steps other than s are what they were: the
\* same handles, due at the same time, and wl_timers names them as before.
OthersKept(s) ==
  /\ \A h \in DOMAIN turn.scheduled :
       turn.scheduled[h].step_id # s =>
         /\ h \in DOMAIN turn'.scheduled
         /\ turn'.scheduled[h] = turn.scheduled[h]
  /\ \A o \in DOMAIN turn.wl_timers \ {s} :
       /\ o \in DOMAIN turn'.wl_timers
       /\ turn'.wl_timers[o] = turn.wl_timers[o]

\* C29: a work-log delta for a step cancels the flush pending for that step
\* and schedules a new one DebounceS seconds ahead; the flushes pending for
\* the other steps keep their handles and deadlines, and the idle wait and
\* the timeouts of the outstanding requests are unchanged. A flush that
\* fires leaves the flushes of the other steps and the idle wait unchanged
\* as well.
C29_DebouncePerStep ==
  /\ [][WorkLogDelta =>
          LET s == StepOf(last'.arg)
          IN  /\ OthersKept(s)
              /\ \A h \in HandlesOf(s) : h \notin DOMAIN turn'.scheduled
              /\ s \in DOMAIN turn'.wl_timers
              /\ turn'.wl_timers[s] \in DOMAIN turn'.scheduled
              /\ turn'.scheduled[turn'.wl_timers[s]] =
                    [step_id |-> s, left |-> DebounceS]
              /\ idle_left' = idle_left
              /\ requests' = requests]_vars
  /\ [][last'.op = "flush_wl" /\ Len(turn'.puts) = Len(turn.puts) + 1 =>
          /\ OthersKept(last'.arg)
          /\ idle_left' = idle_left
          /\ requests' = requests]_vars

\* A second delta for w2 has replaced w2's flush while the flush of w1,
\* scheduled two seconds earlier, is still due in one second.
C29_Witness ==
  /\ last.op = "on_any"
  /\ last.arg.event = "SESSION_WORK_LOG_PART"
  /\ last.arg.data.step_id = "w2"
  /\ turn.handles = 3
  /\ DOMAIN turn.wl_timers = {"w1", "w2"}
  /\ turn.wl_timers["w1"] \in DOMAIN turn.scheduled
  /\ turn.scheduled[turn.wl_timers["w1"]].left = 1
  /\ turn.scheduled[turn.wl_timers["w2"]].left = DebounceS

\* The step dispatches to the turn's handler an event of the turn's session
\* (or without session id) whose type is not one of the two buffered types.
PassThroughDispatch ==
  /\ Dispatching
  /\ Subscribed
  /\ last'.arg.malformed = "no"
  /\ ~(Truthy(last'.arg.session_id) /\ last'.arg.session_id # SessionId)
  /\ last'.arg.event \notin {"SESSION_TEXT_PART", "SESSION_WORK_LOG_PART"}

\* The finished event with the type, message id, data and metadata of e and
\* the turn's session id.
Unchanged(e) ==
  [type |-> e.event, session_id |-> SessionId, message_id |-> e.message_id,
   data |-> e.data, metadata |-> e.metadata, origin |-> "pass"]

\* C30: the dispatch of an event of the turn's session whose type is
\* neither SESSION_TEXT_PART nor SESSION_WORK_LOG_PART puts exactly one
\* finished event on the turn's queue, behind what is queued: it has the
\* inbound event's type, message id, data and metadata and the turn's
\* session id.
C30_PassThroughUnchanged ==
  [][PassThroughDispatch =>
       /\ Events(NewPuts) = <<Unchanged(last'.arg)>>
       /\ Events(turn'.queue) = Append(Events(turn.queue), Unchanged(last'.arg))]_vars

\* An event without session id, whose data is not a dict, has been put
\* behind a queued form with its metadata and the turn's session id.
C30_Witness ==
  /\ last.op = "on_any"
  /\ last.arg.event = "SESSION_CARD"
  /\ Len(turn.queue) = 2
  /\ turn.queue[2].type = "SESSION_CARD"
  /\ turn.queue[2].session_id = SessionId
  /\ turn.queue[2].message_id = "m2"
  /\ turn.queue[2].metadata = "md2"
  /\ turn.queue[2].data = NotADict

\* C31: the step that closes a turn puts and yields nothing and leaves no
\* flush scheduled; a closed turn has no handler subscribed; and in a turn
\* opened later on the session a reassembled text is made of the fragments
\* that turn has received, a flushed work-log event of the deltas that turn
\* has received: what the turn before had buffered at its close is in
\* neither.
C31_BufferedFragmentsDiscarded ==
  /\ [][(~IsClosed /\ IsClosed') =>
          /\ turn'.scheduled = <<>>
          /\ turn'.puts = turn.puts
          /\ yielded' = yielded]_vars
  /\ [](IsClosed => (turn.scheduled = <<>> /\ ~Subscribed))
  /\ [][(Dispatching /\ Subscribed /\ last'.arg.event = "SESSION_TEXT_PART"
           /\ last'.arg.data.final) =>
          /\ Len(NewPuts) = 1
          /\ NewPuts[1].data.content =
               Join(Append(seen.frags[KeyOf(last'.arg)], last'.arg.data.content))]_vars
  /\ [][(last'.op = "flush_wl" /\ Len(NewPuts) = 1) =>
          NewPuts[1].data.text = Join(seen.deltas[last'.arg])]_vars

\* The first turn closed with "a" of m1 and "x" of w1 buffered; the second
\* turn has received the final fragment "b" and put the text "b".
C31_Witness ==
  /\ seen.turns = 1
  /\ "m1" \in DOMAIN seen.lost.text_buffer
  /\ seen.lost.text_buffer["m1"] = <<"a">>
  /\ "w1" \in DOMAIN seen.lost.wl_buffers
  /\ last.op = "on_any"
  /\ last.arg.event = "SESSION_TEXT_PART"
  /\ Len(turn.puts) = 1
  /\ turn.puts[1].data.content = "b"

\* C32: what subscribe() has yielded is a prefix of the events its handler
\* has received, in arrival order; the stream ends by itself only when the
\* client is not connected, and then it has yielded every event it has
\* received; once it has ended or was closed its handler is not registered.
C32_SubscribeIsPersistent ==
  /\ IsPrefix(sub.out, sub.puts)
  /\ sub.pc = "ended" => (~sub.connected /\ sub.out = sub.puts)
  /\ sub.pc \in {"ended", "cancelled"} => ~Registered(event_handlers, "_handler")

\* The last status of q that is not empty, None when there is none.
RECURSIVE LastStatus(_)
LastStatus(q) ==
  IF q = <<>> THEN None
  ELSE IF q[Len(q)] # None /\ q[Len(q)] # "" THEN q[Len(q)]
  ELSE LastStatus(SubSeq(q, 1, Len(q) - 1))

\* C33: the event a flush puts for step s is a SESSION_WORK_LOG_PART event
\* of the turn's session whose data has the step id, the concatenation in
\* arrival order of the text deltas received for s since its previous flush
\* and the last non-empty status among those deltas (None when none of them
\* had one).
C33_FlushContent ==
  [][(last'.op = "flush_wl" /\ Len(NewPuts) = 1) =>
       /\ seen.deltas[last'.arg] # <<>>
       /\ NewPuts[1].type = "SESSION_WORK_LOG_PART"
       /\ NewPuts[1].session_id = SessionId
       /\ NewPuts[1].data =
            [kind |-> "dict", step_id |-> last'.arg,
             text |-> Join(seen.deltas[last'.arg]),
             status |-> LastStatus(seen.stats[last'.arg])]]_vars

\* After "x" with status "run" was flushed, "y" without status and "e" with
\* an empty status were flushed as "ye" without status.
C33_Witness ==
  /\ last.op = "flush_wl"
  /\ Len(turn.puts) = 2
  /\ turn.puts[1].data.text = "x"
  /\ turn.puts[1].data.status = "run"
  /\ turn.puts[2].data.text = "ye"
  /\ turn.puts[2].data.status = None

\* C34: the text put at a final fragment is the concatenation, in arrival
\* order, of the fragments received with the same message id since that
\* id's last final fragment, the fragments without message id counting as
\* one message of their own; it has the message id of the final fragment.
C34_ReassembledPerMessage ==
  [][(Dispatching /\ Subscribed /\ last'.arg.event = "SESSION_TEXT_PART"
       /\ Received(last'.arg) /\ last'.arg.data.final) =>
       /\ Len(NewPuts) = 1
       /\ NewPuts[1].message_id = last'.arg.message_id
       /\ NewPuts[1].data.content =
            Join(Append(seen.parts[last'.arg.message_id], last'.arg.data.content))]_vars

\* C35: when an event of the session is dispatched after the message of
\* chat() has been handed to the socket, and the turn has neither ended nor
\* been closed, the turn's handler is subscribed.
C35_NoEventMissedAfterSend ==
  [][(Dispatching /\ Received(last'.arg) /\ channel.sent > 0
       /\ pc \notin {"created", "eager_yield", "closed", "cancelled"}) =>
       Subscribed]_vars

\* A session-state event that carries a terminal state.
IsTerminalState(evt) ==
  /\ evt.type = "SESSION_STATE"
  /\ evt.data.kind = "dict"
  /\ evt.data.content \in TERMINAL_STATES

\* C36: when a turn has yielded the state event synthesized from a state
\* check, it has yielded no other session-state event that carries a
\* terminal state.
C36_OneTerminalState ==
  \A i, j \in 1..Len(yielded) :
    (yielded[i].origin = "check" /\ j # i) => ~IsTerminalState(yielded[j])

\* The step ids that have a flush scheduled on the event loop.
ScheduledSteps == {turn.scheduled[h].step_id : h \in DOMAIN turn.scheduled}

\* C37: while the turn's handler is subscribed, the step ids with a
\* scheduled flush are the step ids with a work-log accumulator and the
\* keys of wl_timers; each has exactly one scheduled flush, the one
\* wl_timers names, due within DebounceS seconds of the step's last delta;
\* a turn that has closed has no flush scheduled.
C37_TimersMatchAccumulators ==
  /\ Subscribed =>
       /\ ScheduledSteps = DOMAIN turn.wl_buffers
       /\ DOMAIN turn.wl_timers = DOMAIN turn.wl_buffers
       /\ \A s \in DOMAIN turn.wl_buffers :
            /\ HandlesOf(s) = {turn.wl_timers[s]}
            /\ turn.scheduled[turn.wl_timers[s]].left = DebounceS - seen.since[s]
            /\ seen.deltas[s] # <<>>
  /\ IsClosed => turn.scheduled = <<>>

\* Two steps have an accumulator and a flush each, due at different times,
\* after the flush of one of them has fired once.
C37_Witness ==
  /\ Subscribed
  /\ DOMAIN turn.wl_buffers = {"w1", "w2"}
  /\ turn.scheduled[turn.wl_timers["w1"]].left # turn.scheduled[turn.wl_timers["w2"]].left
  /\ \E i \in 1..Len(turn.puts) : turn.puts[i].type = "SESSION_WORK_LOG_PART"

\* C38: once the turn has terminated (done is set, the sentinel is put), the
\* events that are left to be yielded before the generator closes never
\* become more: no step adds to the queue while it is drained, so a
\* consumer that keeps pulling reaches the end of the generator after at
\* most as many yields as events were queued at termination.
C38_DrainEnds ==
  [][(turn.done /\ Subscribed) =>
       Len(Events(turn'.queue)) <= Len(Events(turn.queue))]_vars

\* The request's envelope is being sent: the await of sio.emit has not yet
\* returned and the call has not started to wait.
Sending(r) == requests[r].pc = "emitting"

\* C39: while the envelope of a request is being sent its response_handler
\* is registered; a matching reply dispatched then sets result_event and
\* its data is merged, and both are kept when the call starts to wait, so
\* the call returns with it; a call that got a matching reply has
\* result_event set as long as it is pending.
C39_ReplyBeforeWaitIsKept ==
  /\ [](\A r \in RequestIds : Sending(r) => Registered(event_handlers, r))
  /\ [][\A r \in RequestIds :
          (Dispatching /\ Sending(r) /\ Matches(requests[r], r, last'.arg)) =>
            /\ requests'[r].result_event
            /\ requests'[r].got # <<>>]_vars
  /\ [][\A r \in RequestIds :
          (Sending(r) /\ requests'[r].pc = "waiting") =>
            /\ requests'[r].result_event = requests[r].result_event
            /\ requests'[r].result_data = requests[r].result_data]_vars
  /\ [](\A r \in RequestIds :
          (Pending(r) /\ requests[r].got # <<>>) => requests[r].result_event)
  /\ [][\A r \in RequestIds :
          (requests[r].pc = "waiting" /\ requests[r].result_event) =>
            requests'[r].pc \in {"waiting", "returned"}]_vars

\* The reply to r1 has been dispatched while the envelope of r1 was still
\* being sent.
C39_Witness ==
  /\ last.op = "on_any"
  /\ Sending("r1")
  /\ requests["r1"].result_event
  /\ requests["r1"].got # <<>>
  /\ requests["r1"].result_data # <<>>

\* The step's event has been processed by the turn as an event of its own
\* session: passed through with the turn's session id, ending the turn when
\* it is a terminal state; a text fragment buffered, or reassembled into a
\* text with the turn's session id; a work-log delta accumulated with a
\* flush scheduled.
ProcessedAsOwn ==
  LET e == last'.arg
  IN  /\ e.event \notin {"SESSION_TEXT_PART", "SESSION_WORK_LOG_PART"} =>
           /\ Events(NewPuts) = <<Unchanged(e)>>
           /\ (e.event = "SESSION_STATE" /\ e.data.content \in TERMINAL_STATES) =>
                 (turn'.done /\ IsNone(LastOf(turn'.queue)))
      /\ (e.event = "SESSION_TEXT_PART" /\ e.data.final) =>
           /\ Len(NewPuts) = 1
           /\ NewPuts[1].type = "SESSION_TEXT"
           /\ NewPuts[1].session_id = SessionId
      /\ (e.event = "SESSION_TEXT_PART" /\ ~e.data.final) =>
           /\ NewPuts = <<>>
           /\ KeyOf(e) \in DOMAIN turn'.text_buffer
           /\ LastOf(turn'.text_buffer[KeyOf(e)]) = e.data.content
      /\ e.event = "SESSION_WORK_LOG_PART" =>
           /\ NewPuts = <<>>
           /\ StepOf(e) \in DOMAIN turn'.wl_buffers
           /\ turn'.scheduled[turn'.wl_timers[StepOf(e)]].left = DebounceS

\* C40 as stated: an event without session id is processed by the turn as
\* an event of its own session, and an event whose session id is present
\* and differs from the turn's leaves the turn unchanged.
C40_NoSessionIdProcessed ==
  /\ [][(Dispatching /\ Subscribed /\ last'.arg.session_id = None) =>
          ProcessedAsOwn]_vars
  /\ [][ForeignDispatch => UNCHANGED turn]_vars

\* C40: an event whose session id is absent or the empty string is
\* processed by the turn as an event of its own session, and an event whose
\* session id is not empty and differs from the turn's leaves the turn
\* unchanged.
C40_NoSessionIdProcessedOrEmpty ==
  /\ [][(Dispatching /\ Subscribed /\ last'.arg.session_id \in {None, ""}) =>
          ProcessedAsOwn]_vars
  /\ [][(ForeignDispatch /\ last'.arg.session_id # "") => UNCHANGED turn]_vars

\* A terminal state without session id has ended the turn behind a queued
\* form that had no session id either; both have the turn's session id.
C40_Witness ==
  /\ last.op = "on_any"
  /\ last.arg.session_id = None
  /\ last.arg.event = "SESSION_STATE"
  /\ turn.done
  /\ Len(turn.queue) = 3
  /\ turn.queue[1].type = "SESSION_FORM_TO_USER"
  /\ turn.queue[1].session_id = SessionId
  /\ turn.queue[2].type = "SESSION_STATE"
  /\ turn.queue[2].session_id = SessionId
  /\ IsNone(turn.queue[3])
====
